---- MODULE Spec2Model ----
(***************************************************************************)
(* Loan payment lifecycle of the finance application: the manual payment   *)
(* (LoanServiceImpl.MakePayment) and the reconciliation tick of the        *)
(* PaymentScheduler, over the storage they share (loans, payment plans,    *)
(* account funds, the operation log).                                      *)
(*                                                                         *)
(* Every storage call of the Go code is one atomic step; what a handler    *)
(* holds between two calls (the rows it loaded) is a snapshot kept in the  *)
(* handler's own record, so that db.Save writes the snapshot back as the   *)
(* code does.                                                              *)
(*                                                                         *)
(* Money is counted in tenths of a cent.  The schedule stores totals       *)
(* rounded to whole cents, so the 10% penalty is exact in this unit; the   *)
(* float64 rounding of the Go arithmetic is abstracted to exact values.    *)
(* Dates are day numbers (the code strips the time of day).  Sending a     *)
(* notification changes nothing the application stores, so the steps that  *)
(* only notify are steps that change the handler's position alone.         *)
(***************************************************************************)
EXTENDS Integers, Sequences, FiniteSets, TLC

\* ------------------------------------------------------------------ bounds
NumLoans == 2            \* loans in the store; loan l has l installments
MonthLen == 2            \* days between two due dates
MaxDay == 3              \* the calendar runs from day 0 to MaxDay
BaseCents == 10          \* an installment of loan l totals l * BaseCents cents
StartFundsCents == 20    \* opening balance of the funding account, in cents
MaxStarts == 2           \* Start calls of the scheduler that are modelled
SchedLoans == 1          \* loans in the store when the lifecycle is explored
SchedDay == 2            \* the day on which the lifecycle is explored
FailDay == 3             \* the day on which failing collaborators are explored
FailGap == 1             \* days between the issue dates of two loans, there
MaxLog == 2              \* operations a failing tick may leave unmatched
MaxPrincipal == 12       \* the calculator is given principals of 1 .. MaxPrincipal cents
MaxTerm == 3             \* and terms of 0 .. MaxTerm months
MaxCreated == 2          \* loans CreateLoan may store
MaxLedgerOps == 3        \* balance-changing calls that are modelled
MaxPlanSeq == 6          \* primary keys of payment_plans a regeneration may reach
FreeDigits == 2          \* trailing digits of a card number that take every value
MaxRand == 1             \* a random draw of the card service gives 0 .. MaxRand
CardLife == 1            \* days a card is valid (five years in the code)
MaxKeys == 3             \* PGP entities that are generated

\* ------------------------------------------------------- program constants
PenaltyPercent == 10     \* payment.Total * 0.1
ReminderDays == 3        \* paymentDate.Sub(today) <= 3*24*time.Hour
Space == 10              \* the character " " of a presented card number (digits are 0 .. 9)
Dash == 11               \* the character "-"
MinCardLen == 13         \* len(cardNumber) < 13
MaxCardLen == 19         \* len(cardNumber) > 19
KeyChar == 12            \* the characters of encryptionKey, held as one character

NoDate == 0 - 1          \* PaidDate == nil
NoPlan == 0              \* targetPayment == nil (plan ids start at 1)

OpeningFunds == 10 * StartFundsCents
TheAccount == 1
Accounts == {TheAccount}
Payers == {"p1", "p2"}
NowCaller == 0               \* the caller of ProcessPaymentsNow
LoopIds == 1 .. MaxStarts    \* the goroutines of run()
Tickers == {NowCaller} \cup LoopIds
Amounts == {10 * BaseCents}

\* models.PaymentStatus
PaymentStatusScheduled == "scheduled"
PaymentStatusCompleted == "completed"
PaymentStatusDelayed == "delayed"
\* models.LoanStatus
LoanStatusActive == "active"
LoanStatusCompleted == "completed"

VARIABLES
    today,        \* the calendar date, time.Now().UTC() stripped to the day
    loans,        \* loans table: id -> the row (account, terms, dates, status)
    plans,        \* payment_plans table: loan id -> rows ordered by installment_num
    funds,        \* financial_accounts table: id -> Funds
    operations,   \* operations table, in insertion order
    mp,           \* one record per MakePayment caller
    tk,           \* one record per execution of processPayments
    lastTick,     \* history: day of the last undisturbed complete tick, or NoDate
    running,      \* PaymentScheduler.running
    stopClosed,   \* whether stopCh has been closed
    loops,        \* one record per goroutine launched by Start (go s.run())
    crashed,      \* the process died of a panic
    lastCall,     \* history: the last call of Start or Stop, and what it found
    cl,           \* one record per CreateLoan caller
    ua,           \* the caller of UpdateAllLoanMonthlyPayments
    planSeq,      \* the last primary key the payment_plans table has given out
    calc,         \* the loan terms on the calculator's desk and what it made of them
    fa,           \* one record per caller of AddFunds, WithdrawFunds, TransferFunds
    clients,      \* clients table, in insertion order
    rc,           \* one record per RegisterClient caller
    luhn,         \* the digit string on the Luhn desk and what was made of it
    build,        \* which of the two PaymentCardServiceImpl sources is compiled
    cards,        \* payment_cards table, in insertion order
    cs,           \* the caller of the payment card service
    pgpSeq        \* how many PGP entities createPGPEntity has generated

vars == <<today, loans, plans, funds, operations, mp, tk, lastTick,
          running, stopClosed, loops, crashed, lastCall, cl, ua, planSeq, calc,
          fa, clients, rc, luhn, build, cards, cs, pgpSeq>>
store == <<loans, plans, funds, operations>>
sched == <<running, stopClosed, loops, crashed>>
\* What the payment and the tick never touch, and what Start and Stop never touch.
\* What the loan and account services never touch.
office == <<clients, rc, luhn, build, cards, cs, pgpSeq>>
beyond == <<fa, office>>
rest == <<cl, ua, planSeq, calc, beyond>>
more == <<lastCall, cl, ua, planSeq, calc, beyond>>

\* What the tables hold, as one value (used to compare two moments).
Store == [loans |-> loans, plans |-> plans, funds |-> funds, operations |-> operations]

\* --------------------------------------------------------------- helpers
RECURSIVE SeqOfSet(_)
SeqOfSet(S) ==
    IF S = {} THEN <<>>
    ELSE LET m == CHOOSE x \in S : \A y \in S : x <= y
         IN <<m>> \o SeqOfSet(S \ {m})

\* A plan row as GeneratePaymentPlan leaves it: status scheduled, no paid date.
NewPlan(l, i, issueDay) ==
    [id |-> (l * (l - 1)) \div 2 + i,
     num |-> i,
     due |-> issueDay + i * MonthLen,
     total |-> 10 * BaseCents * l,
     interest |-> 0,
     principal |-> 10 * BaseCents * l,
     payment |-> 10 * BaseCents * l,
     status |-> PaymentStatusScheduled,
     paid |-> NoDate]

\* ORDER BY installment_num of the rows WHERE loan_id = l.
GetLoanWithPaymentPlan(l) == [loan |-> loans[l], plans |-> plans[l]]

\* The first row whose status is scheduled, or NoPlan (the loop of MakePayment).
FirstScheduled(rows) ==
    LET S == {k \in DOMAIN rows : rows[k].status = PaymentStatusScheduled}
    IN IF S = {} THEN NoPlan ELSE rows[CHOOSE k \in S : \A j \in S : k <= j].id

\* A service that debits without looking at the balance.
NoFundsCheck(acctFunds, amount) == FALSE

\* account.Funds < amount
InsufficientFunds(acctFunds, amount) == acctFunds < amount

\* allPaid: every row other than the target is completed, in the loaded rows.
AllPaid(rows, targetId) ==
    \A k \in DOMAIN rows :
        rows[k].id # targetId => rows[k].status = PaymentStatusCompleted

\* db.Save(row): the row with that primary key is overwritten as a whole.
SavePlanRow(l, row) ==
    [plans EXCEPT ![l] = [k \in DOMAIN @ |-> IF @[k].id = row.id THEN row ELSE @[k]]]

\* The lookup of UpdatePaymentPlan: the loan's rows hold one with that id.
PlanFound(l, id) == l \in DOMAIN plans /\ \E k \in DOMAIN plans[l] : plans[l][k].id = id

\* models.Operation as MakePayment fills it.
WithdrawOperation(acct, amount, l) ==
    [kind |-> "withdraw", account |-> acct, sum |-> amount, loan |-> l]

\* History: a foreign write or a date change disturbs every tick in progress.
Disturbed(t) == [x \in DOMAIN t |-> [t[x] EXCEPT !.clean = FALSE]]

NoLoanRow == [account |-> 0, status |-> "none", principal |-> 0, rate |-> 0, term |-> 0,
              monthly |-> 0, issue |-> 0, maturity |-> 0]

IdlePayer == [pc |-> "idle", loan |-> 0, amount |-> 0, target |-> NoPlan,
              rows |-> <<>>, loanRow |-> NoLoanRow, acct |-> 0, result |-> "none"]

\* ------------------------------------------------- LoanServiceImpl.MakePayment
\* GetLoanWithPaymentPlan, then the selection of the target payment.
MP_Load(p, l, amount) ==
    /\ mp[p].pc = "idle"
    /\ LET got == GetLoanWithPaymentPlan(l)
           target == FirstScheduled(got.plans)
       IN mp' = [mp EXCEPT ![p] =
                   IF target = NoPlan
                   THEN [IdlePayer EXCEPT !.pc = "done", !.loan = l, !.amount = amount,
                                          !.result = "NoPendingInstallment"]
                   ELSE [IdlePayer EXCEPT !.pc = "getAccount", !.loan = l,
                                          !.amount = amount, !.target = target,
                                          !.rows = got.plans, !.loanRow = got.loan]]
    /\ UNCHANGED <<today, store, tk, lastTick, sched>>
    /\ UNCHANGED more

\* GetFinancialAccountByID, then the funds check.
MP_GetAccount(p) ==
    /\ mp[p].pc = "getAccount"
    /\ LET acct == funds[mp[p].loanRow.account]
       IN mp' = [mp EXCEPT ![p] =
                   IF InsufficientFunds(acct, mp[p].amount)
                   THEN [IdlePayer EXCEPT !.pc = "done", !.loan = mp[p].loan,
                                          !.amount = mp[p].amount,
                                          !.result = "InsufficientFunds"]
                   ELSE [@ EXCEPT !.pc = "updateAccount", !.acct = acct]]
    /\ UNCHANGED <<today, store, tk, lastTick, sched>>
    /\ UNCHANGED more

\* account.Funds -= amount; UpdateFinancialAccount(account) saves the loaded row.
MP_UpdateAccount(p) ==
    /\ mp[p].pc = "updateAccount"
    /\ funds' = [funds EXCEPT ![mp[p].loanRow.account] = mp[p].acct - mp[p].amount]
    /\ mp' = [mp EXCEPT ![p].pc = "createOperation"]
    /\ tk' = Disturbed(tk)
    /\ lastTick' = NoDate
    /\ UNCHANGED <<today, loans, plans, operations, sched>>
    /\ UNCHANGED more

\* CreateOperation, then the target is marked completed in memory only and
\* allPaid is computed over the loaded rows.
MP_CreateOperation(p) ==
    /\ mp[p].pc = "createOperation"
    /\ operations' = Append(operations,
                            WithdrawOperation(mp[p].loanRow.account, mp[p].amount, mp[p].loan))
    /\ mp' = [mp EXCEPT ![p] =
                IF AllPaid(mp[p].rows, mp[p].target)
                THEN [@ EXCEPT !.pc = "updateLoan"]
                ELSE [IdlePayer EXCEPT !.pc = "done", !.loan = mp[p].loan,
                                       !.amount = mp[p].amount,
                                       !.target = mp[p].target, !.result = "ok"]]
    /\ tk' = Disturbed(tk)
    /\ lastTick' = NoDate
    /\ UNCHANGED <<today, loans, plans, funds, sched>>
    /\ UNCHANGED more

\* loan.Status = completed; UpdateLoan(loan) saves the loaded loan row.
MP_UpdateLoan(p) ==
    /\ mp[p].pc = "updateLoan"
    /\ loans' = [loans EXCEPT ![mp[p].loan] =
                    [mp[p].loanRow EXCEPT !.status = LoanStatusCompleted]]
    /\ mp' = [mp EXCEPT ![p] =
                [IdlePayer EXCEPT !.pc = "done", !.loan = mp[p].loan,
                                  !.amount = mp[p].amount,
                                  !.target = mp[p].target, !.result = "ok"]]
    /\ tk' = Disturbed(tk)
    /\ lastTick' = NoDate
    /\ UNCHANGED <<today, plans, funds, operations, sched>>
    /\ UNCHANGED more

\* MakePayment has returned mp[p].result to its caller.
MP_Return(p) ==
    /\ mp[p].pc = "done"
    /\ mp' = [mp EXCEPT ![p] = IdlePayer]
    /\ UNCHANGED <<today, store, tk, lastTick, sched>>
    /\ UNCHANGED more

\* ------------------------------------------- PaymentScheduler.processPayments
IdleTick == [pc |-> "idle", queue |-> <<>>, loan |-> 0, rows |-> <<>>, idx |-> 0,
             today |-> NoDate, start |-> <<>>, day0 |-> NoDate, clean |-> FALSE,
             rerun |-> FALSE, failed |-> {}, unsent |-> {}]

\* A penalty of payment.Total * 0.01.
OnePercentPenalty(total) == total \div 100

\* penaltyAmount := payment.Total * 0.1
PenaltyAmount(total) == (total * PenaltyPercent) \div 100

\* A tick that handles completed rows like any other.
NeverSkipped(row) == FALSE

\* if payment.Status == PaymentStatusCompleted { continue }
SkipCompleted(row) == row.status = PaymentStatusCompleted

\* A tick that penalises a delayed row again.
NeverDelayed(row) == FALSE

\* if payment.Status == PaymentStatusDelayed { return }
AlreadyDelayed(row) == row.status = PaymentStatusDelayed

\* paymentDate.Before(today) / Equal(today) / Sub(today) <= 3 days
IsOverdue(row, day) == row.due < day
IsDueToday(row, day) == row.due = day
IsUpcoming(row, day) == row.due > day /\ row.due - day <= ReminderDays

\* OperationService.CreateOperation(accountID, -payment.Total, ..., "LOAN_PAYMENT"):
\* the recorder appends the event to the log and does nothing else.
RecordOperation(acct, amount, kind) ==
    Append(operations, [kind |-> kind, account |-> acct, sum |-> amount, loan |-> 0])

\* The row the tick is looking at.
Cur(t) == tk[t].rows[tk[t].idx]
AtRow(t) == tk[t].pc = "classify" /\ tk[t].idx <= Len(tk[t].rows)

\* A step of tick t that writes the tables disturbs the other ticks only.
OwnWrite(t, rec) == [Disturbed(tk) EXCEPT ![t] = [rec EXCEPT !.clean = tk[t].clean]]

\* History is kept for the manually triggered tick: where it started from, and
\* whether anything else has written, or the date has changed, since.
Observed(t) == t = NowCaller

\* GetLoansByStatus(active): the start of processPayments.
TK_Begin(t) ==
    /\ tk[t].pc = "idle"
    /\ tk' = [tk EXCEPT ![t] =
                [IdleTick EXCEPT !.pc = "nextLoan",
                                 !.queue = SeqOfSet({l \in DOMAIN loans :
                                                loans[l].status = LoanStatusActive}),
                                 !.today = today,
                                 !.start = IF Observed(t) THEN Store ELSE <<>>,
                                 !.day0 = IF Observed(t) THEN today ELSE NoDate,
                                 !.clean = Observed(t),
                                 !.rerun = Observed(t) /\ lastTick = today]]
    /\ UNCHANGED <<today, store, mp, lastTick, running, stopClosed, crashed>>
    /\ UNCHANGED more

\* The loop over the loans: GetLoanWithPaymentPlan(loan.ID), and the date that
\* processLoanPayments reads once per loan.
TK_NextLoan(t) ==
    /\ tk[t].pc = "nextLoan"
    /\ tk[t].queue # <<>>
    /\ LET l == Head(tk[t].queue)
       IN tk' = [tk EXCEPT ![t] =
                   [@ EXCEPT !.pc = "classify", !.queue = Tail(@), !.loan = l,
                             !.rows = GetLoanWithPaymentPlan(l).plans,
                             !.idx = 1, !.today = today]]
    /\ UNCHANGED <<today, store, mp, lastTick, sched>>
    /\ UNCHANGED more

\* No loan is left: processPayments is about to return.
TK_LoansDone(t) ==
    /\ tk[t].pc = "nextLoan"
    /\ tk[t].queue = <<>>
    /\ tk' = [tk EXCEPT ![t].pc = "done"]
    /\ UNCHANGED <<today, store, mp, lastTick, sched>>
    /\ UNCHANGED more

\* processLoanPayments has gone through the loan's rows.
TK_RowsDone(t) ==
    /\ tk[t].pc = "classify"
    /\ tk[t].idx > Len(tk[t].rows)
    /\ tk' = [tk EXCEPT ![t].pc = "nextLoan"]
    /\ UNCHANGED <<today, store, mp, lastTick, sched>>
    /\ UNCHANGED more

\* A completed row, or one due later than the reminder window: nothing is done.
TK_Skip(t) ==
    /\ AtRow(t)
    /\ \/ SkipCompleted(Cur(t))
       \/ /\ ~IsOverdue(Cur(t), tk[t].today)
          /\ ~IsDueToday(Cur(t), tk[t].today)
          /\ ~IsUpcoming(Cur(t), tk[t].today)
    /\ tk' = [tk EXCEPT ![t].idx = @ + 1]
    /\ UNCHANGED <<today, store, mp, lastTick, sched>>
    /\ UNCHANGED more

\* sendPaymentReminder: a notification and nothing else.
TK_Reminder(t) ==
    /\ AtRow(t)
    /\ ~SkipCompleted(Cur(t))
    /\ IsUpcoming(Cur(t), tk[t].today)
    /\ tk' = [tk EXCEPT ![t].idx = @ + 1]
    /\ UNCHANGED <<today, store, mp, lastTick, sched>>
    /\ UNCHANGED more

\* handleOverduePayment on a row that is already delayed: it returns at once.
TK_OverdueDelayed(t) ==
    /\ AtRow(t)
    /\ ~SkipCompleted(Cur(t))
    /\ IsOverdue(Cur(t), tk[t].today)
    /\ AlreadyDelayed(Cur(t))
    /\ tk' = [tk EXCEPT ![t].idx = @ + 1]
    /\ UNCHANGED <<today, store, mp, lastTick, sched>>
    /\ UNCHANGED more

\* The row handleOverduePayment saves.
Penalised(row) ==
    [row EXCEPT !.total = @ + PenaltyAmount(@), !.status = PaymentStatusDelayed]

\* handleOverduePayment: penalty, status delayed, UpdatePaymentPlan, notification.
TK_Overdue(t) ==
    /\ AtRow(t)
    /\ ~SkipCompleted(Cur(t))
    /\ IsOverdue(Cur(t), tk[t].today)
    /\ ~AlreadyDelayed(Cur(t))
    /\ LET row == Penalised(Cur(t))
           next == [tk[t] EXCEPT !.rows[tk[t].idx] = row, !.idx = @ + 1]
       IN IF PlanFound(tk[t].loan, row.id)
          THEN /\ plans' = SavePlanRow(tk[t].loan, row)
               /\ tk' = OwnWrite(t, next)
               /\ lastTick' = NoDate
          ELSE /\ tk' = [tk EXCEPT ![t] = next]
               /\ UNCHANGED <<plans, lastTick>>
    /\ UNCHANGED <<today, loans, funds, operations, mp, sched>>
    /\ UNCHANGED more

\* handleDuePayment: GetAccountByID and the funds check; without the funds a
\* "pending" notification is all that happens.
TK_Due(t) ==
    /\ AtRow(t)
    /\ ~SkipCompleted(Cur(t))
    /\ IsDueToday(Cur(t), tk[t].today)
    /\ tk' = [tk EXCEPT ![t] =
                IF funds[loans[tk[t].loan].account] >= Cur(t).total
                THEN [@ EXCEPT !.pc = "dueCreateOperation"]
                ELSE [@ EXCEPT !.idx = @ + 1]]
    /\ UNCHANGED <<today, store, mp, lastTick, sched>>
    /\ UNCHANGED more

\* handleDuePayment: the operation is recorded.
TK_DueCreateOperation(t) ==
    /\ tk[t].pc = "dueCreateOperation"
    /\ operations' = RecordOperation(loans[tk[t].loan].account, 0 - Cur(t).total,
                                     "LOAN_PAYMENT")
    /\ tk' = OwnWrite(t, [tk[t] EXCEPT !.pc = "dueUpdatePlan"])
    /\ lastTick' = NoDate
    /\ UNCHANGED <<today, loans, plans, funds, mp, sched>>
    /\ UNCHANGED more

\* The row handleDuePayment saves.
Paid(row, day) == [row EXCEPT !.status = PaymentStatusCompleted, !.paid = day]

\* handleDuePayment: status completed, paid date, UpdatePaymentPlan, notification.
TK_DueUpdatePlan(t) ==
    /\ tk[t].pc = "dueUpdatePlan"
    /\ LET row == Paid(Cur(t), today)
           next == [tk[t] EXCEPT !.pc = "classify", !.rows[tk[t].idx] = row,
                                 !.idx = @ + 1]
       IN IF PlanFound(tk[t].loan, row.id)
          THEN /\ plans' = SavePlanRow(tk[t].loan, row)
               /\ tk' = OwnWrite(t, next)
          ELSE /\ tk' = [tk EXCEPT ![t] = next]
               /\ UNCHANGED plans
    /\ lastTick' = NoDate
    /\ UNCHANGED <<today, loans, funds, operations, mp, sched>>
    /\ UNCHANGED more

\* processPayments returns.
TK_End(t) ==
    /\ tk[t].pc = "done"
    /\ tk' = [tk EXCEPT ![t] = IdleTick]
    /\ lastTick' = IF tk[t].clean THEN today ELSE NoDate
    /\ UNCHANGED <<today, store, mp, running, stopClosed, crashed>>
    /\ UNCHANGED more

\* ------------------------------------------ failures inside processPayments
\* (A failure of GetLoansByStatus makes processPayments return at once: it
\* leaves no trace and is not a step.)
\* A tick that gives up at the first schedule it cannot load.
AbortTick(rec) == [rec EXCEPT !.queue = <<>>]

\* GetLoanWithPaymentPlan fails: logged, continue with the next loan.
AfterLoadFailure(rec) ==
    [rec EXCEPT !.queue = Tail(@), !.failed = @ \cup {Head(rec.queue)}]

TK_LoadFails(t) ==
    /\ tk[t].pc = "nextLoan"
    /\ tk[t].queue # <<>>
    /\ tk' = [tk EXCEPT ![t] = AfterLoadFailure(@)]
    /\ UNCHANGED <<today, store, mp, lastTick, sched>>
    /\ UNCHANGED more

\* The handler returns after a failure on the row: on to the next row.
RowFailed(rec) ==
    [rec EXCEPT !.pc = "classify", !.idx = @ + 1, !.failed = @ \cup {rec.loan}]

\* handleOverduePayment: UpdatePaymentPlan fails; the penalty stays in memory.
TK_OverdueFails(t) ==
    /\ AtRow(t)
    /\ ~SkipCompleted(Cur(t))
    /\ IsOverdue(Cur(t), tk[t].today)
    /\ ~AlreadyDelayed(Cur(t))
    /\ tk' = [tk EXCEPT ![t] = RowFailed([@ EXCEPT !.rows[tk[t].idx] = Penalised(Cur(t))])]
    /\ UNCHANGED <<today, store, mp, lastTick, sched>>
    /\ UNCHANGED more

\* handleDuePayment: GetAccountByID fails.
TK_DueAccountFails(t) ==
    /\ AtRow(t)
    /\ ~SkipCompleted(Cur(t))
    /\ IsDueToday(Cur(t), tk[t].today)
    /\ tk' = [tk EXCEPT ![t] = RowFailed(@)]
    /\ UNCHANGED <<today, store, mp, lastTick, sched>>
    /\ UNCHANGED more

\* handleDuePayment: CreateOperation fails.
TK_DueOperationFails(t) ==
    /\ tk[t].pc = "dueCreateOperation"
    /\ tk' = [tk EXCEPT ![t] = RowFailed(@)]
    /\ UNCHANGED <<today, store, mp, lastTick, sched>>
    /\ UNCHANGED more

\* handleDuePayment: UpdatePaymentPlan fails after the operation was recorded.
TK_DueUpdateFails(t) ==
    /\ tk[t].pc = "dueUpdatePlan"
    /\ Len(operations) < MaxLog
    /\ tk' = [tk EXCEPT ![t] = RowFailed([@ EXCEPT !.rows[tk[t].idx] = Paid(Cur(t), today)])]
    /\ UNCHANGED <<today, store, mp, lastTick, sched>>
    /\ UNCHANGED more

\* sendPaymentReminder: the notification fails; logged.
TK_ReminderUnsent(t) ==
    /\ AtRow(t)
    /\ ~SkipCompleted(Cur(t))
    /\ IsUpcoming(Cur(t), tk[t].today)
    /\ tk' = [tk EXCEPT ![t] = [@ EXCEPT !.idx = @ + 1, !.unsent = @ \cup {Cur(t).id}]]
    /\ UNCHANGED <<today, store, mp, lastTick, sched>>
    /\ UNCHANGED more

\* handleOverduePayment: the penalty is saved, then the notification fails; logged.
TK_OverdueUnsent(t) ==
    /\ AtRow(t)
    /\ ~SkipCompleted(Cur(t))
    /\ IsOverdue(Cur(t), tk[t].today)
    /\ ~AlreadyDelayed(Cur(t))
    /\ PlanFound(tk[t].loan, Cur(t).id)
    /\ LET row == Penalised(Cur(t))
       IN /\ plans' = SavePlanRow(tk[t].loan, row)
          /\ tk' = OwnWrite(t, [tk[t] EXCEPT !.rows[tk[t].idx] = row, !.idx = @ + 1,
                                             !.unsent = @ \cup {row.id}])
    /\ lastTick' = NoDate
    /\ UNCHANGED <<today, loans, funds, operations, mp, sched>>
    /\ UNCHANGED more

\* handleDuePayment: the completion is saved, then the notification fails; logged.
TK_DueUnsent(t) ==
    /\ tk[t].pc = "dueUpdatePlan"
    /\ PlanFound(tk[t].loan, Cur(t).id)
    /\ LET row == Paid(Cur(t), today)
       IN /\ plans' = SavePlanRow(tk[t].loan, row)
          /\ tk' = OwnWrite(t, [tk[t] EXCEPT !.pc = "classify", !.rows[tk[t].idx] = row,
                                             !.idx = @ + 1, !.unsent = @ \cup {row.id}])
    /\ lastTick' = NoDate
    /\ UNCHANGED <<today, loans, funds, operations, mp, sched>>
    /\ UNCHANGED more

\* One step of processPayments in which a collaborator fails.
TK_Failure(t) ==
    \/ TK_LoadFails(t)
    \/ TK_OverdueFails(t)
    \/ TK_DueAccountFails(t)
    \/ TK_DueOperationFails(t)
    \/ TK_DueUpdateFails(t)
    \/ TK_ReminderUnsent(t)
    \/ TK_OverdueUnsent(t)
    \/ TK_DueUnsent(t)

\* One step inside processPayments.
TK_Step(t) ==
    \/ TK_NextLoan(t)
    \/ TK_LoansDone(t)
    \/ TK_RowsDone(t)
    \/ TK_Skip(t)
    \/ TK_Reminder(t)
    \/ TK_OverdueDelayed(t)
    \/ TK_Overdue(t)
    \/ TK_Due(t)
    \/ TK_DueCreateOperation(t)
    \/ TK_DueUpdatePlan(t)

\* PaymentScheduler.ProcessPaymentsNow: processPayments on the caller's thread.
ProcessPaymentsNow ==
    \/ TK_Begin(NowCaller) /\ UNCHANGED loops
    \/ TK_Step(NowCaller)
    \/ TK_End(NowCaller) /\ UNCHANGED loops

\* The calendar moves to the next day.
AdvanceDay ==
    /\ today < MaxDay
    /\ today' = today + 1
    /\ tk' = Disturbed(tk)
    /\ UNCHANGED <<store, mp, lastTick, sched>>
    /\ UNCHANGED more

MakePayment(p) ==
    \/ \E l \in DOMAIN loans, a \in Amounts : MP_Load(p, l, a)
    \/ MP_GetAccount(p)
    \/ MP_UpdateAccount(p)
    \/ MP_CreateOperation(p)
    \/ MP_UpdateLoan(p)
    \/ MP_Return(p)

\* ------------------------------------------------- PaymentScheduler lifecycle
\* A goroutine of run() is: "none" (not launched), "first" (launched, before the
\* immediate processPayments), "firstRunning", "select" (waiting on ticker.C and
\* stopCh), "tickRunning" (processPayments after a tick), "exited".
Launched == {g \in LoopIds : loops[g].state # "none"}

\* Start on a stopped scheduler: running = true; go s.run().
Start ==
    /\ ~running
    /\ Cardinality(Launched) < MaxStarts
    /\ running' = TRUE
    /\ loops' = [loops EXCEPT ![Cardinality(Launched) + 1].state = "first"]
    /\ lastCall' = "Start"
    /\ UNCHANGED <<today, store, mp, tk, lastTick, stopClosed, crashed, rest>>

\* A Start that launches a loop whatever the running flag says.
StartTwice ==
    /\ running
    /\ Cardinality(Launched) < MaxStarts
    /\ loops' = [loops EXCEPT ![Cardinality(Launched) + 1].state = "first"]
    /\ lastCall' = "StartAgain"
    /\ UNCHANGED <<today, store, mp, tk, lastTick, running, stopClosed, crashed, rest>>

\* Start on a running scheduler: logged, nothing else.
StartAgain ==
    /\ running
    /\ lastCall' = "StartAgain"
    /\ UNCHANGED <<today, store, mp, tk, lastTick, sched, rest>>

\* Stop on a running scheduler: close(s.stopCh); running = false.  Closing a
\* channel that is already closed panics: the process dies, and with it every
\* goroutine and everything held in memory; the store stays as it is.
Stop ==
    /\ running
    /\ IF stopClosed
       THEN /\ crashed' = TRUE
            /\ running' = FALSE
            /\ loops' = [g \in LoopIds |-> [state |-> "exited", buffered |-> FALSE]]
            /\ tk' = [t \in Tickers |-> IdleTick]
            /\ UNCHANGED stopClosed
       ELSE /\ stopClosed' = TRUE
            /\ running' = FALSE
            /\ UNCHANGED <<crashed, loops, tk>>
    /\ lastCall' = "Stop"
    /\ UNCHANGED <<today, store, mp, lastTick, rest>>

\* Stop on a stopped scheduler: logged, nothing else.
StopAgain ==
    /\ ~running
    /\ lastCall' = "StopAgain"
    /\ UNCHANGED <<today, store, mp, tk, lastTick, sched, rest>>

\* run(): the immediate first processPayments.
LoopFirstRun(g) ==
    /\ loops[g].state = "first"
    /\ TK_Begin(g)
    /\ loops' = [loops EXCEPT ![g].state = "firstRunning"]

\* run(): processPayments has returned; the goroutine waits in the select (the
\* ticker is created after the first run).
LoopTickEnd(g) ==
    /\ loops[g].state \in {"firstRunning", "tickRunning"}
    /\ TK_End(g)
    /\ loops' = [loops EXCEPT ![g].state = "select"]

\* The ticker fires: its channel holds one tick; a tick that finds the channel
\* full is dropped.
TimerFire(g) ==
    /\ loops[g].state \in {"select", "tickRunning"}
    /\ ~loops[g].buffered
    /\ loops' = [loops EXCEPT ![g].buffered = TRUE]
    /\ UNCHANGED <<today, store, mp, tk, lastTick, running, stopClosed, crashed>>
    /\ UNCHANGED more

\* run(): case <-ticker.C.
LoopTakeTick(g) ==
    /\ loops[g].state = "select"
    /\ loops[g].buffered
    /\ TK_Begin(g)
    /\ loops' = [loops EXCEPT ![g] = [state |-> "tickRunning", buffered |-> FALSE]]

\* run(): case <-s.stopCh (a closed channel is always ready).
LoopExit(g) ==
    /\ loops[g].state = "select"
    /\ stopClosed
    /\ loops' = [loops EXCEPT ![g] = [state |-> "exited", buffered |-> FALSE]]
    /\ UNCHANGED <<today, store, mp, tk, lastTick, running, stopClosed, crashed>>
    /\ UNCHANGED more

Run(g) ==
    \/ LoopFirstRun(g)
    \/ TK_Step(g)
    \/ LoopTickEnd(g)
    \/ TimerFire(g)
    \/ LoopTakeTick(g)
    \/ LoopExit(g)

\* ------------------------------------------------------------ the calculator
\* Amounts are whole cents, counted in tenths of a cent; the rationals the Go
\* code goes through are kept exact.
RECURSIVE GCD(_, _)
GCD(a, b) == IF b = 0 THEN a ELSE GCD(b, a % b)

RECURSIVE Pow(_, _)
Pow(b, n) == IF n <= 0 THEN 1 ELSE b * Pow(b, n - 1)

\* math.Round(a / b) for b > 0: to the nearest integer, halves away from zero.
RoundDiv(a, b) ==
    IF a >= 0 THEN (a + b \div 2) \div b ELSE 0 - ((b \div 2 - a) \div b)

\* math.Round(x * 100) / 100 of the amount a / b tenths of a cent.
RoundCents(a, b) == 10 * RoundDiv(a, 10 * b)

\* monthlyRate := interestRate / 12 / 100, as a fraction in lowest terms.
MonthlyRate(rate) ==
    LET g == GCD(rate, 1200) IN [num |-> rate \div g, den |-> 1200 \div g]

\* A calculator that charges no interest whatever the rate.
PaymentWithoutInterest(principal, rate, term) ==
    IF term <= 0 THEN 0 ELSE RoundCents(principal, term)

\* LoanServiceImpl.CalculateMonthlyPayment
CalculateMonthlyPayment(principal, rate, term) ==
    IF term <= 0 THEN 0
    ELSE IF rate <= 0 THEN RoundCents(principal, term)
    ELSE LET r == MonthlyRate(rate)
             g == Pow(r.den + r.num, term)
         IN RoundCents(principal * r.num * g, r.den * (g - Pow(r.den, term)))

\* The amounts inside GeneratePaymentPlan are multiples of 1 / Scale(loan)
\* tenths of a cent.
Scale(loan) == Pow(MonthlyRate(loan.rate).den, loan.term)

RECURSIVE RemainingPrincipal(_, _)
RECURSIVE PrincipalPayment(_, _)
\* interestPayment := remainingPrincipal * monthlyRate, for installment i
InterestPayment(loan, i) ==
    (RemainingPrincipal(loan, i - 1) * MonthlyRate(loan.rate).num)
        \div MonthlyRate(loan.rate).den

\* principalPayment := monthlyPayment - interestPayment; the last one is the
\* remaining principal
PrincipalPayment(loan, i) ==
    IF i = loan.term THEN RemainingPrincipal(loan, i - 1)
    ELSE loan.monthly * Scale(loan) - InterestPayment(loan, i)

\* remainingPrincipal after installment i
RemainingPrincipal(loan, i) ==
    IF i = 0 THEN loan.principal * Scale(loan)
    ELSE RemainingPrincipal(loan, i - 1) - PrincipalPayment(loan, i)

\* monthlyPayment as installment i stores it (the last one is corrected)
InstallmentPayment(loan, i) ==
    IF i = loan.term THEN PrincipalPayment(loan, i) + InterestPayment(loan, i)
    ELSE loan.monthly * Scale(loan)

\* A generator that stores the uncorrected principal part in the last row.
UncorrectedPortion(loan, i) ==
    RoundCents(loan.monthly * Scale(loan) - InterestPayment(loan, i), Scale(loan))

\* PrincipalPortion: math.Round(principalPayment*100) / 100
PrincipalPortion(loan, i) == RoundCents(PrincipalPayment(loan, i), Scale(loan))

\* LoanServiceImpl.GeneratePaymentPlan: the rows, before the table numbers them.
GeneratePaymentPlan(loan) ==
    [i \in 1 .. loan.term |->
        [id |-> NoPlan,
         num |-> i,
         due |-> loan.issue + i * MonthLen,
         total |-> RoundCents(PrincipalPayment(loan, i) + InterestPayment(loan, i),
                              Scale(loan)),
         interest |-> RoundCents(InterestPayment(loan, i), Scale(loan)),
         principal |-> PrincipalPortion(loan, i),
         payment |-> RoundCents(InstallmentPayment(loan, i), Scale(loan)),
         status |-> PaymentStatusScheduled,
         paid |-> NoDate]]

\* The terms the calculator is given.
Principals == {10 * c : c \in 1 .. MaxPrincipal}
Rates == {0, 120}
Terms == 0 .. MaxTerm
NoTerms == [pc |-> "none", principal |-> 0, rate |-> 0, term |-> 0, monthly |-> 0,
            signal |-> "none", rows |-> <<>>]

\* The loan as GeneratePaymentPlan reads it.
TermsOf(c) == [principal |-> c.principal, rate |-> c.rate, term |-> c.term,
               monthly |-> c.monthly, issue |-> 0]

\* What CalculateMonthlyPayment hands its caller besides the amount: its only
\* result is the float64, the invalid term goes to the log.
PaymentSignal(principal, rate, term) == "none"

\* CalculateMonthlyPayment on the terms.
ComputePayment ==
    /\ calc.pc = "terms"
    /\ calc' = [calc EXCEPT !.pc = "priced",
                            !.monthly = CalculateMonthlyPayment(calc.principal, calc.rate,
                                                                calc.term),
                            !.signal = PaymentSignal(calc.principal, calc.rate, calc.term)]
    /\ UNCHANGED <<today, store, mp, tk, lastTick, sched, lastCall, cl, ua, planSeq, beyond>>

\* GeneratePaymentPlan on the priced loan.
GeneratePlan ==
    /\ calc.pc = "priced"
    /\ calc' = [calc EXCEPT !.pc = "planned", !.rows = GeneratePaymentPlan(TermsOf(calc))]
    /\ UNCHANGED <<today, store, mp, tk, lastTick, sched, lastCall, cl, ua, planSeq, beyond>>

\* Loan l of the opening book: l installments of BaseCents * l each, no
\* interest, issued on issueDay.
LoanRow(l, issueDay) ==
    [account |-> TheAccount, status |-> LoanStatusActive,
     principal |-> 10 * BaseCents * l * l, rate |-> 0, term |-> l,
     monthly |-> 10 * BaseCents * l, issue |-> issueDay,
     maturity |-> issueDay + l * MonthLen]

\* -------------------------------------------------- LoanServiceImpl.CreateLoan
Creators == {"c1"}

\* An account id no row of financial_accounts has.
MissingAccount == 2
AccountIds == Accounts \cup {MissingAccount}

\* What the handler lets through: amount > 0, term > 0, any rate.
LoanPrincipals == {10 * BaseCents, 10 * MaxPrincipal}
LoanTerms == 1 .. MaxTerm

NoStore == [loans |-> <<>>, plans |-> <<>>, funds |-> <<>>, operations |-> <<>>]

\* start is history: the tables as the call found them.
IdleCreator == [pc |-> "idle", account |-> 0, acct |-> 0, row |-> NoLoanRow, loan |-> 0,
                result |-> "none", start |-> NoStore]

\* models.Loan as CreateLoan fills it on day issueDay.
NewLoan(a, principal, rate, term, issueDay) ==
    [account |-> a, status |-> LoanStatusActive,
     principal |-> principal, rate |-> rate, term |-> term,
     monthly |-> CalculateMonthlyPayment(principal, rate, term),
     issue |-> issueDay, maturity |-> issueDay + term * MonthLen]

\* models.Operation as CreateLoan fills it.
IssueOperation(acct, amount, l) ==
    [kind |-> "loanIssue", account |-> acct, sum |-> amount, loan |-> l]

\* An account that is not credited.
Uncredited(balance, amount) == balance

\* account.Funds += principal
Credited(balance, amount) == balance + amount

\* The table gives the rows the next primary keys.
Numbered(rows) == [k \in DOMAIN rows |-> [rows[k] EXCEPT !.id = planSeq + k]]

\* A storage that creates the new rows and leaves the old ones.
CreateOnly(old, new) == old \o new

\* The transaction of SavePaymentPlan: delete the rows of the loan, create the
\* new ones.
DeleteAndCreate(old, new) == new

\* LoanStorageImpl.SavePaymentPlan(l, rows)
SavePaymentPlan(l, rows) == [plans EXCEPT ![l] = DeleteAndCreate(@, Numbered(rows))]

\* GetFinancialAccountByID; the monthly payment is computed, the loan is built
\* when the clock is read.
CL_GetAccount(c, a, principal, rate, term) ==
    /\ cl[c].pc = "idle"
    /\ Len(loans) < MaxCreated
    /\ cl' = [cl EXCEPT ![c] =
                IF a \notin DOMAIN funds
                THEN [IdleCreator EXCEPT !.pc = "done", !.account = a,
                                         !.row = NewLoan(a, principal, rate, term, 0),
                                         !.result = "AccountNotFound", !.start = Store]
                ELSE [IdleCreator EXCEPT !.pc = "createLoan", !.account = a,
                                         !.acct = funds[a],
                                         !.row = NewLoan(a, principal, rate, term, 0),
                                         !.start = Store]]
    /\ UNCHANGED <<today, store, mp, tk, lastTick, sched, lastCall, ua, planSeq, calc, beyond>>

\* time.Now(); loanStorage.CreateLoan(loan): the table gives the loan its id.
CL_CreateLoan(c) ==
    /\ cl[c].pc = "createLoan"
    /\ LET row == [cl[c].row EXCEPT !.issue = today,
                                    !.maturity = today + cl[c].row.term * MonthLen]
       IN /\ loans' = Append(loans, row)
          /\ cl' = [cl EXCEPT ![c].pc = "createOperation", ![c].row = row,
                              ![c].loan = Len(loans) + 1]
    /\ plans' = Append(plans, <<>>)
    /\ tk' = Disturbed(tk)
    /\ lastTick' = NoDate
    /\ UNCHANGED <<today, funds, operations, mp, sched, lastCall, ua, planSeq, calc, beyond>>

\* operationStorage.CreateOperation(operation)
CL_CreateOperation(c) ==
    /\ cl[c].pc = "createOperation"
    /\ operations' = Append(operations,
                            IssueOperation(cl[c].account, cl[c].row.principal, cl[c].loan))
    /\ cl' = [cl EXCEPT ![c].pc = "updateAccount"]
    /\ tk' = Disturbed(tk)
    /\ lastTick' = NoDate
    /\ UNCHANGED <<today, loans, plans, funds, mp, sched, lastCall, ua, planSeq, calc, beyond>>

\* account.Funds += principal; UpdateFinancialAccount(account) saves the row
\* loaded at the start of the call.
CL_UpdateAccount(c) ==
    /\ cl[c].pc = "updateAccount"
    /\ funds' = [funds EXCEPT ![cl[c].account] = Credited(cl[c].acct, cl[c].row.principal)]
    /\ cl' = [cl EXCEPT ![c].pc = "savePlan"]
    /\ tk' = Disturbed(tk)
    /\ lastTick' = NoDate
    /\ UNCHANGED <<today, loans, plans, operations, mp, sched, lastCall, ua, planSeq, calc, beyond>>

\* GeneratePaymentPlan(loan); SavePaymentPlan(loan.ID, paymentPlans)
CL_SavePaymentPlan(c) ==
    /\ cl[c].pc = "savePlan"
    /\ plans' = SavePaymentPlan(cl[c].loan, GeneratePaymentPlan(cl[c].row))
    /\ planSeq' = planSeq + cl[c].row.term
    /\ cl' = [cl EXCEPT ![c].pc = "done", ![c].result = "ok"]
    /\ tk' = Disturbed(tk)
    /\ lastTick' = NoDate
    /\ UNCHANGED <<today, loans, funds, operations, mp, sched, lastCall, ua, calc, beyond>>

\* CreateLoan has returned cl[c].result to its caller.
CL_Return(c) ==
    /\ cl[c].pc = "done"
    /\ cl' = [cl EXCEPT ![c] = IdleCreator]
    /\ UNCHANGED <<today, store, mp, tk, lastTick, sched, lastCall, ua, planSeq, calc, beyond>>

\* The storage call CreateLoan is about to make returns an error: nothing is
\* written by it, what the earlier calls wrote stays, the error is returned.
CL_Fails(c) ==
    /\ cl[c].pc \in {"createLoan", "createOperation", "updateAccount", "savePlan"}
    /\ cl' = [cl EXCEPT ![c].pc = "done", ![c].result = "error"]
    /\ UNCHANGED <<today, store, mp, tk, lastTick, sched, lastCall, ua, planSeq, calc, beyond>>

CreateLoan(c) ==
    \/ \E a \in AccountIds, p \in LoanPrincipals, r \in Rates, n \in LoanTerms :
           CL_GetAccount(c, a, p, r, n)
    \/ CL_CreateLoan(c)
    \/ CL_CreateOperation(c)
    \/ CL_UpdateAccount(c)
    \/ CL_SavePaymentPlan(c)
    \/ CL_Return(c)

\* The schedule of a stored loan is generated and saved again.
RegeneratePlan ==
    \E l \in DOMAIN loans :
        /\ planSeq + loans[l].term <= MaxPlanSeq
        /\ plans' = SavePaymentPlan(l, GeneratePaymentPlan(loans[l]))
        /\ planSeq' = planSeq + loans[l].term
        /\ tk' = Disturbed(tk)
        /\ lastTick' = NoDate
        /\ UNCHANGED <<today, loans, funds, operations, mp, sched, lastCall, cl, ua, calc, beyond>>

\* --------------------------------- LoanServiceImpl.UpdateAllLoanMonthlyPayments
\* rows is the slice GetAllLoans returned, idx the position of the range loop.
IdleRepair == [pc |-> "idle", rows |-> <<>>, idx |-> 0]

\* loan.MonthlyPayment = CalculateMonthlyPayment(...), on the loaded copy.
Repaired(row) ==
    [row EXCEPT !.monthly = CalculateMonthlyPayment(row.principal, row.rate, row.term)]

\* loans, err := s.loanStorage.GetAllLoans()
UA_Load ==
    /\ ua.pc = "idle"
    /\ ua' = [pc |-> "loop", rows |-> loans, idx |-> 1]
    /\ UNCHANGED <<today, store, mp, tk, lastTick, sched, lastCall, cl, planSeq, calc, beyond>>

\* The loaded loan has a monthly payment: the loop goes on.
UA_Skip ==
    /\ ua.pc = "loop"
    /\ ua.idx <= Len(ua.rows)
    /\ ua.rows[ua.idx].monthly > 0
    /\ ua' = [ua EXCEPT !.idx = @ + 1]
    /\ UNCHANGED <<today, store, mp, tk, lastTick, sched, lastCall, cl, planSeq, calc, beyond>>

\* The loaded loan has none: it is recomputed and UpdateLoan(&loan) saves the
\* loaded row as a whole.
UA_UpdateLoan ==
    /\ ua.pc = "loop"
    /\ ua.idx <= Len(ua.rows)
    /\ ua.rows[ua.idx].monthly <= 0
    /\ loans' = [loans EXCEPT ![ua.idx] = Repaired(ua.rows[ua.idx])]
    /\ ua' = [ua EXCEPT !.idx = @ + 1]
    /\ tk' = Disturbed(tk)
    /\ lastTick' = NoDate
    /\ UNCHANGED <<today, plans, funds, operations, mp, sched, lastCall, cl, planSeq, calc, beyond>>

\* UpdateLoan returns an error: it is logged and the loop goes on.
UA_UpdateLoanFails ==
    /\ ua.pc = "loop"
    /\ ua.idx <= Len(ua.rows)
    /\ ua.rows[ua.idx].monthly <= 0
    /\ ua' = [ua EXCEPT !.idx = @ + 1]
    /\ UNCHANGED <<today, store, mp, tk, lastTick, sched, lastCall, cl, planSeq, calc, beyond>>

\* The loop is over: return nil.
UA_Return ==
    /\ ua.pc = "loop"
    /\ ua.idx > Len(ua.rows)
    /\ ua' = IdleRepair
    /\ UNCHANGED <<today, store, mp, tk, lastTick, sched, lastCall, cl, planSeq, calc, beyond>>

UpdateAllLoanMonthlyPayments ==
    \/ UA_Load
    \/ UA_Skip
    \/ UA_UpdateLoan
    \/ UA_UpdateLoanFails
    \/ UA_Return

\* ------------------------------------------------ FinancialAccountServiceImpl
Tellers == {"t1", "t2"}
OtherAccount == 2
LedgerAccounts == {TheAccount, OtherAccount}

\* src and tgt are the rows GetFinancialAccountByID returned.
IdleTeller == [pc |-> "idle", kind |-> "none", source |-> 0, target |-> 0, amount |-> 0,
               src |-> 0, tgt |-> 0, result |-> "none"]

\* models.Operation as the account service fills it: account is the target of
\* a deposit and the source of a withdrawal or a transfer.
LedgerOperation(t) ==
    IF t.kind = "transfer"
    THEN [kind |-> t.kind, account |-> t.source, target |-> t.target, sum |-> t.amount,
          loan |-> 0]
    ELSE [kind |-> t.kind, account |-> t.source, sum |-> t.amount, loan |-> 0]

\* The operations recorded and the calls that are on their way to record one.
Moves ==
    Len(operations)
    + Cardinality({k \in Tellers : fa[k].pc \notin {"idle", "done"}})
    + Cardinality({p \in Payers : mp[p].pc \notin {"idle", "done"}})

\* AddFunds, WithdrawFunds, TransferFunds up to the funds check: the account
\* (of a transfer: the source account) is loaded.
FA_Load(k, kind, a, b, amount) ==
    /\ fa[k].pc = "idle"
    /\ Moves < MaxLedgerOps
    /\ kind = "transfer" => a # b
    /\ a \in DOMAIN funds
    /\ fa' = [fa EXCEPT ![k] =
                [IdleTeller EXCEPT !.pc = IF kind = "transfer" THEN "loadTarget"
                                         ELSE IF kind = "withdraw" /\ funds[a] < amount
                                              THEN "done" ELSE "updateAccount",
                                   !.kind = kind, !.source = a, !.amount = amount,
                                   !.target = IF kind = "transfer" THEN b ELSE 0,
                                   !.src = funds[a],
                                   !.result = IF kind = "withdraw" /\ funds[a] < amount
                                              THEN "InsufficientFunds" ELSE "none"]]
    /\ UNCHANGED <<today, store, mp, tk, lastTick, sched, lastCall, cl, ua, planSeq, calc, office>>

\* TransferFunds: the target account is loaded, then the funds check.
FA_LoadTarget(k) ==
    /\ fa[k].pc = "loadTarget"
    /\ fa[k].target \in DOMAIN funds
    /\ fa' = [fa EXCEPT ![k].tgt = funds[fa[k].target],
                        ![k].pc = IF fa[k].src < fa[k].amount THEN "done"
                                  ELSE "updateAccount",
                        ![k].result = IF fa[k].src < fa[k].amount THEN "InsufficientFunds"
                                      ELSE "none"]
    /\ UNCHANGED <<today, store, mp, tk, lastTick, sched, lastCall, cl, ua, planSeq, calc, office>>

\* account.Funds += amount or -= amount; UpdateFinancialAccount saves the
\* loaded row.
FA_UpdateAccount(k) ==
    /\ fa[k].pc = "updateAccount"
    /\ funds' = [funds EXCEPT ![fa[k].source] =
                    IF fa[k].kind = "deposit" THEN fa[k].src + fa[k].amount
                    ELSE fa[k].src - fa[k].amount]
    /\ fa' = [fa EXCEPT ![k].pc = IF fa[k].kind = "transfer" THEN "updateTarget"
                                  ELSE "createOperation"]
    /\ tk' = Disturbed(tk)
    /\ lastTick' = NoDate
    /\ UNCHANGED <<today, loans, plans, operations, mp, sched, lastCall, cl, ua, planSeq,
                   calc, office>>

\* TransferFunds: UpdateFinancialAccount(targetAccount)
FA_UpdateTarget(k) ==
    /\ fa[k].pc = "updateTarget"
    /\ funds' = [funds EXCEPT ![fa[k].target] = fa[k].tgt + fa[k].amount]
    /\ fa' = [fa EXCEPT ![k].pc = "createOperation"]
    /\ tk' = Disturbed(tk)
    /\ lastTick' = NoDate
    /\ UNCHANGED <<today, loans, plans, operations, mp, sched, lastCall, cl, ua, planSeq,
                   calc, office>>

\* operationStorage.CreateOperation(operation)
FA_CreateOperation(k) ==
    /\ fa[k].pc = "createOperation"
    /\ operations' = Append(operations, LedgerOperation(fa[k]))
    /\ fa' = [fa EXCEPT ![k].pc = "done", ![k].result = "ok"]
    /\ tk' = Disturbed(tk)
    /\ lastTick' = NoDate
    /\ UNCHANGED <<today, loans, plans, funds, mp, sched, lastCall, cl, ua, planSeq, calc, office>>

\* The call has returned fa[k].result to its caller.
FA_Return(k) ==
    /\ fa[k].pc = "done"
    /\ fa' = [fa EXCEPT ![k] = IdleTeller]
    /\ UNCHANGED <<today, store, mp, tk, lastTick, sched, lastCall, cl, ua, planSeq, calc, office>>

\* AddFunds, WithdrawFunds or TransferFunds by caller k.
MoveFunds(k) ==
    \/ \E kind \in {"deposit", "withdraw", "transfer"}, a, b \in LedgerAccounts,
          amount \in Amounts : FA_Load(k, kind, a, b, amount)
    \/ FA_LoadTarget(k)
    \/ FA_UpdateAccount(k)
    \/ FA_UpdateTarget(k)
    \/ FA_CreateOperation(k)
    \/ FA_Return(k)

\* ------------------------------------------------------------------- Init
\* Loans 1 .. n, loan l issued on day gap * (l - 1): active, their schedules
\* as generated; today is day.
\* The scheduler is constructed stopped; nobody is inside a handler.
InitTables(n, day, gap, legacy, accts) ==
    /\ today = day
    /\ loans = [l \in 1 .. n |->
                  IF l \in legacy THEN [LoanRow(l, gap * (l - 1)) EXCEPT !.monthly = 0]
                  ELSE LoanRow(l, gap * (l - 1))]
    /\ plans = [l \in 1 .. n |-> [i \in 1 .. l |-> NewPlan(l, i, gap * (l - 1))]]
    /\ funds = [a \in accts |-> OpeningFunds]
    /\ operations = <<>>
    /\ mp = [p \in Payers |-> IdlePayer]
    /\ tk = [t \in Tickers |-> IdleTick]
    /\ lastTick = NoDate
    /\ running = FALSE
    /\ stopClosed = FALSE
    /\ loops = [g \in LoopIds |-> [state |-> "none", buffered |-> FALSE]]
    /\ crashed = FALSE
    /\ lastCall = "none"
    /\ cl = [c \in Creators |-> IdleCreator]
    /\ ua = IdleRepair
    /\ planSeq = (n * (n + 1)) \div 2

\* Nobody is inside the account service.
NoTellers == fa = [k \in Tellers |-> IdleTeller]

\* AuthService.RegisterClient: who calls it and what it is given.
Registrars == {"r1", "r2"}
Logins == {"ann", "bob"}
Contacts == {"ann@mail", "bob@mail"}
AccessUser == "user"
IdleRegistrar == [pc |-> "idle", login |-> "", contact |-> "", grants |-> <<>>, result |-> ""]

\* No client is registered and nobody is registering.
NoRegistrars == clients = <<>> /\ rc = [r \in Registrars |-> IdleRegistrar]

\* The two sources of PaymentCardServiceImpl in package services: the one that
\* encrypts with PGP and the one that stores the number as it is.
Builds == {"pgp", "plain"}

IdleLuhn == [stage |-> "idle", pair |-> "none", origin |-> "none",
             partial |-> <<>>, number |-> <<>>, ok |-> FALSE]
NoLuhn == luhn = IdleLuhn

\* A string as it is held or stored: as it is (enc "none"), or encrypted,
\* hashed or keyed, with the key or entity that was used.
Plain(text) == [enc |-> "none", key |-> 0, text |-> text]
NoText == Plain(<<>>)
NoCard == [id |-> 0, number |-> NoText, hmac |-> NoText, cvv |-> NoText, expDate |-> NoText,
           expires |-> 0, status |-> "none", account |-> 0]
\* The last call of the card service: what it was given and what it returned.
IdleCardCall == [op |-> "none", who |-> "none", number |-> <<>>, code |-> <<>>, expiry |-> 0,
                 card |-> NoCard, out |-> NoText, result |-> "none"]

\* No card is stored and nobody is inside the card service.
NoCards == cards = <<>> /\ cs = IdleCardCall /\ pgpSeq = 0

\* Nobody is inside a service other than the loan service.
NoCallers == NoTellers /\ NoRegistrars /\ NoLuhn /\ NoCards /\ build = "pgp"

InitBook(n, day, gap, legacy) == InitTables(n, day, gap, legacy, Accounts) /\ NoCallers

InitWith(n, day, gap) == InitBook(n, day, gap, {})

Init == InitWith(NumLoans, 0, 0) /\ calc = NoTerms
InitSched == InitWith(SchedLoans, SchedDay, 0) /\ calc = NoTerms
InitFail == InitWith(NumLoans, FailDay, FailGap) /\ calc = NoTerms

\* The calculator alone: no loan is stored, any terms may be on its desk.
InitPlan ==
    /\ InitWith(0, 0, 0)
    /\ calc \in {[NoTerms EXCEPT !.pc = "terms", !.principal = p, !.rate = r, !.term = n] :
                    p \in Principals, r \in Rates, n \in Terms}

\* One manual payer, the manually triggered tick and the calendar.
Next ==
    \/ MakePayment("p1")
    \/ ProcessPaymentsNow
    \/ AdvanceDay

Spec == Init /\ [][Next]_vars

\* Two clients pay at the same time; the scheduler is not running.
NextPay ==
    \/ MakePayment("p1")
    \/ MakePayment("p2")

SpecPay == Init /\ [][NextPay]_vars

\* The manual tick with failing collaborators.  The thread that executes
\* processPayments keeps running: no step of it waits for anything.
NextFail ==
    \/ ProcessPaymentsNow
    \/ TK_Failure(NowCaller)

SpecFail ==
    InitFail /\ [][NextFail]_vars /\ WF_vars(ProcessPaymentsNow \/ TK_Failure(NowCaller))

NextPlan ==
    \/ ComputePayment
    \/ GeneratePlan

SpecPlan == InitPlan /\ [][NextPlan]_vars

\* Loans are issued one call at a time on an empty book, on some day of the
\* calendar; any storage call of CreateLoan may fail; schedules may be saved
\* again.
InitLoan == \E day \in 0 .. MaxDay : InitWith(0, day, 0) /\ calc = NoTerms

NextLoan ==
    \/ CreateLoan("c1")
    \/ CL_Fails("c1")
    \/ RegeneratePlan

SpecLoan == InitLoan /\ [][NextLoan]_vars

\* A book whose first loan is a legacy record without a monthly payment; the
\* repair runs while a client pays.
InitRepair == InitBook(NumLoans, 0, 0, {1}) /\ calc = NoTerms

NextRepair ==
    \/ UpdateAllLoanMonthlyPayments
    \/ MakePayment("p1")

SpecRepair == InitRepair /\ [][NextRepair]_vars

\* The scheduler with its lifecycle calls and the manually triggered tick; a
\* panic ends the process.
\* Two accounts, one loan with one installment; two callers of the account
\* service and a paying client work at the same time.
InitLedger == InitTables(1, 0, 0, {}, LedgerAccounts) /\ NoCallers /\ calc = NoTerms

NextLedger ==
    \/ MoveFunds("t1")
    \/ MoveFunds("t2")
    \/ (mp["p1"].pc = "idle" => Moves < MaxLedgerOps) /\ MakePayment("p1")

SpecLedger == InitLedger /\ [][NextLedger]_vars

NextSched ==
    \/ ~crashed /\ Start
    \/ ~crashed /\ StartAgain
    \/ ~crashed /\ Stop
    \/ ~crashed /\ StopAgain
    \/ ~crashed /\ \E g \in LoopIds : Run(g)
    \/ ~crashed /\ ProcessPaymentsNow

SpecSched == InitSched /\ [][NextSched]_vars

\* ================================================================= claims
\* Rows of every loan, as pairs <<loan, position>>.
StoredLoans == DOMAIN loans
Rows == {lk \in StoredLoans \X (1 .. NumLoans) : lk[2] \in DOMAIN plans[lk[1]]}
RowOf(lk) == plans[lk[1]][lk[2]]
LoansOn(a) == {l \in StoredLoans : loans[l].account = a}

RECURSIVE SumAbs(_)
SumAbs(ops) ==
    IF ops = <<>> THEN 0
    ELSE (IF Head(ops).sum < 0 THEN 0 - Head(ops).sum ELSE Head(ops).sum) + SumAbs(Tail(ops))

\* The loan-payment operations recorded on account a (by either path).
PaymentOps(a) ==
    SelectSeq(operations,
              LAMBDA o : o.account = a /\ o.kind \in {"withdraw", "LOAN_PAYMENT"})

CompletedRows(a) ==
    {lk \in Rows : lk[1] \in LoansOn(a) /\ RowOf(lk).status = PaymentStatusCompleted}

\* No payment is between its first write and its return.
PayerWriting(p) == mp[p].pc \in {"updateAccount", "createOperation", "updateLoan"}
TickPaying(t) == tk[t].pc \in {"dueCreateOperation", "dueUpdatePlan"}
NoPaymentInFlight ==
    /\ \A p \in Payers : ~PayerWriting(p)
    /\ \A t \in Tickers : ~TickPaying(t)

\* C1: a payment is one atomic unit: whenever no payment is in the middle of
\* its writes, the account has been debited for, and a payment operation
\* recorded for, exactly the installments stored as completed.
C1_PaymentIsAtomic ==
    NoPaymentInFlight =>
        \A a \in Accounts :
            /\ Len(PaymentOps(a)) = Cardinality(CompletedRows(a))
            /\ funds[a] = OpeningFunds - SumAbs(PaymentOps(a))

\* The installment a payment attempt has debited or recorded an operation for,
\* while the attempt is still in progress; NoPlan otherwise.
PayerDebited(p) ==
    IF mp[p].pc \in {"createOperation", "updateLoan"}
       \/ (mp[p].pc = "done" /\ mp[p].result = "ok")
    THEN mp[p].target ELSE NoPlan
TickDebited(t) ==
    IF tk[t].pc = "dueUpdatePlan" THEN Cur(t).id ELSE NoPlan

\* C2: two concurrent payment attempts never both target the same installment.
C2_NoSharedTarget ==
    /\ \A p, q \in Payers :
          (p # q /\ PayerDebited(p) # NoPlan) => PayerDebited(p) # PayerDebited(q)
    /\ \A p \in Payers, t \in Tickers :
          PayerDebited(p) # NoPlan => PayerDebited(p) # TickDebited(t)

\* The stored row with primary key id is completed with a paid date.
StoredCompleted(id) ==
    \E lk \in Rows : /\ RowOf(lk).id = id
                     /\ RowOf(lk).status = PaymentStatusCompleted
                     /\ RowOf(lk).paid # NoDate

\* C3: a successful makePayment leaves the installment it selected stored as
\* completed, with its paid date.
C3_PaymentCompletesTarget ==
    \A p \in Payers :
        (mp[p].pc = "done" /\ mp[p].result = "ok") => StoredCompleted(mp[p].target)

AllStoredCompleted(l) ==
    \A k \in DOMAIN plans[l] : plans[l][k].status = PaymentStatusCompleted

\* C4: once the payments that posted have completed every installment of a
\* loan, the loan is completed.
C4_LoanCompletedWhenAllPaid ==
    NoPaymentInFlight =>
        \A l \in StoredLoans : AllStoredCompleted(l) => loans[l].status = LoanStatusCompleted

NoScheduled(l) ==
    \A k \in DOMAIN plans[l] : plans[l][k].status # PaymentStatusScheduled

\* C5: makePayment fails with NoPendingInstallment exactly when the loan has no
\* scheduled installment, and otherwise with InsufficientFunds exactly when the
\* balance is below the amount; the steps of such a call write nothing.
C5_FailedPaymentChangesNothing ==
    [][\A p \in Payers :
          /\ (mp[p].pc = "idle" /\ mp'[p].pc # "idle") =>
                /\ (mp'[p].result = "NoPendingInstallment") <=> NoScheduled(mp'[p].loan)
                /\ NoScheduled(mp'[p].loan) => mp'[p].pc = "done"
                /\ UNCHANGED store
          /\ (mp[p].pc = "getAccount" /\ mp'[p].pc # "getAccount") =>
                /\ (mp'[p].result = "InsufficientFunds")
                       <=> (funds[loans[mp[p].loan].account] < mp[p].amount)
                /\ (funds[loans[mp[p].loan].account] < mp[p].amount) => mp'[p].pc = "done"
                /\ UNCHANGED store
      ]_vars

\* A call has failed for lack of funds while another loan has nothing pending.
C5_Witness ==
    /\ \E p \in Payers : mp[p].pc = "done" /\ mp[p].result = "InsufficientFunds"
    /\ \E l \in StoredLoans : NoScheduled(l)

\* ------------------------------------------------------- claims on the tick
StartRow(t, lk) == tk[t].start.plans[lk[1]][lk[2]]
ActiveAtStart(t, l) == tk[t].start.loans[l].status = LoanStatusActive
TickDone(t) == tk[t].pc = "done"

OverdueAtStart(t, lk) ==
    /\ ActiveAtStart(t, lk[1])
    /\ StartRow(t, lk).status = PaymentStatusScheduled
    /\ StartRow(t, lk).due < tk[t].day0

\* The total the schedule was generated with.
OriginalTotal(lk) == NewPlan(lk[1], lk[2], 0).total

\* C7: a tick leaves every installment that was scheduled and overdue when it
\* started delayed, its total raised by exactly 10%; and no installment's total
\* ever exceeds its original total by more than that one penalty.
C7_PenaltyOnce ==
    /\ \A t \in {NowCaller} : \A lk \in Rows :
          (TickDone(t) /\ OverdueAtStart(t, lk)) =>
              /\ RowOf(lk).status = PaymentStatusDelayed
              /\ 100 * (RowOf(lk).total - StartRow(t, lk).total)
                     = PenaltyPercent * StartRow(t, lk).total
    /\ \A lk \in Rows :
          100 * (RowOf(lk).total - OriginalTotal(lk))
              \in {0, PenaltyPercent * OriginalTotal(lk)}

\* A tick has finished that found an overdue scheduled installment, on a date
\* later than the one on which another installment was penalised.
C7_Witness ==
    \E t \in {NowCaller} : \E lk, other \in Rows :
        /\ TickDone(t) /\ OverdueAtStart(t, lk)
        /\ other # lk
        /\ StartRow(t, other).status = PaymentStatusDelayed

DueAtStart(t, lk) ==
    /\ ActiveAtStart(t, lk[1])
    /\ StartRow(t, lk).status # PaymentStatusCompleted
    /\ StartRow(t, lk).due = tk[t].day0

\* C8: an undisturbed tick that found one installment due today has, if the
\* account held the total, completed it, reduced the balance by the total and
\* recorded one operation; otherwise it has changed none of the three.
C8_AutoDebit ==
    \A t \in {NowCaller} : \A lk \in Rows :
        (TickDone(t) /\ tk[t].clean /\ {x \in Rows : DueAtStart(t, x)} = {lk}) =>
            LET a == loans[lk[1]].account
                was == tk[t].start
            IN IF was.funds[a] >= StartRow(t, lk).total
               THEN /\ RowOf(lk).status = PaymentStatusCompleted
                    /\ funds[a] = was.funds[a] - StartRow(t, lk).total
                    /\ Len(operations) = Len(was.operations) + 1
               ELSE /\ RowOf(lk).status = PaymentStatusScheduled
                    /\ funds[a] = was.funds[a]
                    /\ operations = was.operations

\* The tick has no business with the row: its loan was not active, or the row
\* was completed, when the tick started, or the row is due after today.
Framed(t, lk) ==
    \/ ~ActiveAtStart(t, lk[1])
    \/ StartRow(t, lk).status = PaymentStatusCompleted
    \/ StartRow(t, lk).due > today

\* C9: during a tick the rows it has no business with stay as they were; an
\* undisturbed tick changes no loan, and on an account all of whose rows are
\* such it changes neither the balance nor the operations.
C9_TickFrame ==
    \A t \in {NowCaller} :
        tk[t].pc # "idle" =>
            /\ \A lk \in Rows : Framed(t, lk) => RowOf(lk) = StartRow(t, lk)
            /\ tk[t].clean =>
                  /\ loans = tk[t].start.loans
                  /\ \A a \in Accounts :
                        (\A lk \in Rows : lk[1] \in LoansOn(a) => Framed(t, lk)) =>
                            /\ funds[a] = tk[t].start.funds[a]
                            /\ operations = tk[t].start.operations

\* A tick has finished that met a loan that is not active, a completed row
\* whose due date has passed and a row due later.
C9_Witness ==
    \E t \in {NowCaller} :
        /\ TickDone(t)
        /\ \E l \in StoredLoans : ~ActiveAtStart(t, l)
        /\ \E lk \in Rows : /\ ActiveAtStart(t, lk[1])
                            /\ StartRow(t, lk).status = PaymentStatusCompleted
                            /\ StartRow(t, lk).due < tk[t].day0
        /\ \E lk \in Rows : ActiveAtStart(t, lk[1]) /\ StartRow(t, lk).due > today

\* ------------------------------------------------ claims on the lifecycle
TicksInFlight == {t \in Tickers : tk[t].pc # "idle"}

\* C10: at no time are two ticks executing, and a timer tick that fires while
\* a tick is executing is not kept for later.
C10_OneTickAtATime ==
    /\ Cardinality(TicksInFlight) <= 1
    /\ \A g \in LoopIds : loops[g].state = "tickRunning" => ~loops[g].buffered

\* The goroutines of run() that have been launched and have not returned.
LoopsAlive == {g \in LoopIds : loops[g].state \notin {"none", "exited"}}

\* The goroutine is about to call processPayments.
CanStartTick(g) ==
    \/ loops[g].state = "first"
    \/ loops[g].state = "select" /\ loops[g].buffered

\* C11: whatever Start and Stop calls are made, no call crashes; while the
\* scheduler is running exactly one loop is alive, and while it is stopped no
\* loop is about to start a tick.
C11_LifecycleConsistent ==
    /\ ~crashed
    /\ running => Cardinality(LoopsAlive) = 1
    /\ ~running => \A g \in LoopIds : ~CanStartTick(g)

\* A call of Start or Stop has just been made.
StartCalled == lastCall' # lastCall /\ lastCall' \in {"Start", "StartAgain"}
StopCalled == lastCall' # lastCall /\ lastCall' \in {"Stop", "StopAgain"}

\* C12: Start on a running scheduler launches no loop and leaves it running;
\* Stop on a stopped scheduler changes nothing and does not crash.
C12_RedundantCallsAreNoOps ==
    [][/\ (StartCalled /\ running) =>
            /\ running'
            /\ UNCHANGED <<today, store, mp, tk, lastTick, sched, rest>>
       /\ (StopCalled /\ ~running) =>
            /\ ~running' /\ ~crashed'
            /\ UNCHANGED <<today, store, mp, tk, lastTick, sched, rest>>
      ]_vars

\* Start has been called on a scheduler whose loop is in the middle of a tick.
C12_Witness ==
    /\ lastCall = "StartAgain"
    /\ running
    /\ \E g \in LoopIds : loops[g].state = "tickRunning"

\* C13: after a Stop, a tick that is executing runs to its end (it leaves
\* processPayments only by returning), and a loop that has exited starts
\* nothing again.
C13_StopIsCooperative ==
    [][/\ \A t \in Tickers :
            tk[t].pc \notin {"idle", "done"} => tk'[t].pc # "idle"
       /\ \A g \in LoopIds :
            loops[g].state = "exited" => loops'[g].state = "exited"
      ]_vars

\* --------------------------------------------------- claims on failures
\* The tick met no failure other than of a notification on loan l.
Unfailed(t, l) == l \notin tk[t].failed

\* C14: a tick that has returned has handled every loan on which nothing but
\* a notification failed, whatever failed on the other loans: its overdue
\* rows are penalised and delayed, its rows due today are completed if the
\* funds were there; and a tick that has started always returns.
C14_FailuresAreIsolated ==
    /\ [](\A lk \in Rows :
            (TickDone(NowCaller) /\ tk[NowCaller].clean /\ Unfailed(NowCaller, lk[1])) =>
                /\ OverdueAtStart(NowCaller, lk) =>
                      /\ RowOf(lk).status = PaymentStatusDelayed
                      /\ RowOf(lk).total = Penalised(StartRow(NowCaller, lk)).total
                /\ (/\ DueAtStart(NowCaller, lk)
                    /\ funds[loans[lk[1]].account] >= StartRow(NowCaller, lk).total) =>
                      RowOf(lk).status = PaymentStatusCompleted)
    /\ (tk[NowCaller].pc # "idle") ~> (tk[NowCaller].pc = "idle")

\* A tick has returned after a failure on one loan; a loan that came after it
\* had a row due today, which is stored completed although its notification
\* failed.
C14_Witness ==
    /\ TickDone(NowCaller) /\ tk[NowCaller].clean
    /\ \E l \in tk[NowCaller].failed : \E lk \in Rows :
          /\ l < lk[1]
          /\ Unfailed(NowCaller, lk[1])
          /\ DueAtStart(NowCaller, lk)
          /\ RowOf(lk).id \in tk[NowCaller].unsent
          /\ RowOf(lk).status = PaymentStatusCompleted

\* ------------------------------------------------ claims on the calculator
RECURSIVE SumPrincipal(_)
SumPrincipal(rows) ==
    IF rows = <<>> THEN 0 ELSE Head(rows).principal + SumPrincipal(Tail(rows))

\* C18: the stored principal portions of a generated schedule add up to the
\* principal, to the cent (principal > 0, rate >= 0, term > 0).
C18_PortionsSumToPrincipal ==
    (calc.pc = "planned" /\ calc.term > 0) => SumPrincipal(calc.rows) = calc.principal

\* ---------------------------------------------------------------------------
\* The loan-issue operations recorded for loan l.
IssueOps(l) ==
    {k \in DOMAIN operations :
        operations[k].kind = "loanIssue" /\ operations[k].loan = l}

RECURSIVE SumOf(_, _)
SumOf(f, S) ==
    IF S = {} THEN 0
    ELSE LET x == CHOOSE y \in S : TRUE IN f[x] + SumOf(f, S \ {x})

\* The principals of the active loans funded into account a, and the sums of
\* the loan-issue operations recorded on it.
Disbursed(a) ==
    SumOf([l \in DOMAIN loans |-> loans[l].principal],
          {l \in DOMAIN loans : loans[l].account = a /\ loans[l].status = LoanStatusActive})
IssueSums(a) ==
    SumOf([k \in DOMAIN operations |-> operations[k].sum],
          {k \in DOMAIN operations :
              operations[k].kind = "loanIssue" /\ operations[k].account = a})

NoCreateLoanInFlight == \A c \in Creators : cl[c].pc \in {"idle", "done"}

\* C15: whenever no createLoan is between two steps, also after one of its
\* steps has failed, every stored active loan has exactly one loan-issue
\* operation and its principal is in the funding account, and the balance has
\* been credited by exactly what the loan-issue operations record.
C15_DisbursementIsAtomic ==
    NoCreateLoanInFlight =>
        /\ \A l \in DOMAIN loans :
               loans[l].status = LoanStatusActive => Cardinality(IssueOps(l)) = 1
        /\ \A a \in Accounts :
               /\ funds[a] = OpeningFunds + Disbursed(a)
               /\ funds[a] = OpeningFunds + IssueSums(a)

\* ---------------------------------------------------------------------------
\* C16: when createLoan has succeeded, the loans table is the one it found
\* plus one active loan that matures term months after its issue date, the
\* funding account holds principal more than it did, the operation log is the
\* one it found plus one loan-issue operation of that amount, and the loan has
\* a schedule; when it has answered AccountNotFound the loans, the balances and
\* the operation log are as it found them and no loan has got a schedule.
C16_CreateLoanEffects ==
    \A c \in Creators :
        cl[c].pc = "done" =>
            LET was == cl[c].start
                l == cl[c].loan
                req == cl[c].row
            IN /\ cl[c].result = "ok" =>
                    /\ l = Len(was.loans) + 1
                    /\ loans = Append(was.loans, loans[l])
                    /\ loans[l] = [req EXCEPT !.status = LoanStatusActive,
                                              !.issue = today,
                                              !.maturity = today + req.term * MonthLen]
                    /\ funds = [was.funds EXCEPT ![cl[c].account] = @ + req.principal]
                    /\ operations = Append(was.operations,
                                           IssueOperation(cl[c].account, req.principal, l))
                    /\ Len(plans) = Len(was.plans) + 1
                    /\ plans[l] # <<>>
               /\ cl[c].result = "AccountNotFound" =>
                    /\ loans = was.loans
                    /\ funds = was.funds
                    /\ operations = was.operations
                    /\ Len(plans) = Len(was.plans)

\* A second loan has been issued at a positive rate.
C16_Witness ==
    \E c \in Creators :
        /\ cl[c].pc = "done"
        /\ cl[c].result = "ok"
        /\ cl[c].loan = 2
        /\ cl[c].row.rate > 0
        /\ today > 0
        /\ funds[cl[c].account] > OpeningFunds + cl[c].row.principal

\* ---------------------------------------------------------------------------
\* rows is a schedule of the loan: term rows numbered 1 .. term, row i due i
\* months after the issue date, every row scheduled.
WellFormed(loan, rows) ==
    /\ Len(rows) = loan.term
    /\ \A i \in DOMAIN rows :
           /\ rows[i].num = i
           /\ rows[i].due = loan.issue + i * MonthLen
           /\ rows[i].status = PaymentStatusScheduled
           /\ rows[i].paid = NoDate

\* C17: the schedule stored for a loan, after createLoan and after any number
\* of regenerations, has exactly term rows numbered 1 .. term, row i due i
\* months after the issue date, all scheduled: a regeneration replaces the
\* rows.
C17_ScheduleWellFormed ==
    \A l \in DOMAIN loans : plans[l] # <<>> => WellFormed(loans[l], plans[l])

\* The only loan of the book has had its schedule of several rows saved again.
C17_Witness ==
    /\ Len(loans) = 1
    /\ cl["c1"].pc = "done"
    /\ cl["c1"].result = "ok"
    /\ Len(plans[1]) >= 2
    /\ plans[1][1].id > Len(plans[1])
    /\ today > 0

\* ---------------------------------------------------------------------------
\* m is amount / term rounded half-up to whole cents (amounts in tenths of a
\* cent): m - 1/2 cent <= amount / term < m + 1/2 cent.
HalfUp(amount, term, m) ==
    /\ m % 10 = 0
    /\ m * term <= amount + 5 * term
    /\ amount + 5 * term < (m + 10) * term

\* C19: for a term <= 0 the calculator returns 0 and signals InvalidTerm to its
\* caller; for a term > 0 and a rate <= 0 it returns principal / term rounded
\* half-up to whole cents.
C19_EdgeCasePolicy ==
    calc.pc \in {"priced", "planned"} =>
        /\ calc.term <= 0 => calc.monthly = 0 /\ calc.signal = "InvalidTerm"
        /\ (calc.term > 0 /\ calc.rate <= 0) =>
               HalfUp(calc.principal, calc.term, calc.monthly)

\* ---------------------------------------------------------------------------
\* The loan row without its monthly payment.
OtherFields(row) == [row EXCEPT !.monthly = 0]

\* C20: a step of updateAllMonthlyPayments, whatever else is in progress,
\* changes no installment, balance or operation, changes of a loan nothing but
\* its monthly payment, and changes nothing of a loan whose stored monthly
\* payment is positive (which is what a second run finds).
C20_RepairChangesOnlyMissingPayments ==
    [][ua' # ua =>
          /\ plans' = plans
          /\ funds' = funds
          /\ operations' = operations
          /\ \A l \in DOMAIN loans :
                 /\ OtherFields(loans'[l]) = OtherFields(loans[l])
                 /\ loans[l].monthly > 0 => loans'[l] = loans[l]]_vars

\* ---------------------------------------------------------------------------
\* C28: a loan whose status is completed has every stored installment
\* completed.
C28_CompletedLoanIsFullyPaid ==
    \A l \in StoredLoans : loans[l].status = LoanStatusCompleted => AllStoredCompleted(l)

\* ---------------------------------------------------------------------------
HasDelayed(l) == \E k \in DOMAIN plans[l] : plans[l][k].status = PaymentStatusDelayed

\* A stored delayed installment keeps its status and its total in every step.
DelayedIsFinal ==
    \A l \in StoredLoans : \A k \in DOMAIN plans[l] :
        plans[l][k].status = PaymentStatusDelayed =>
            /\ plans'[l][k].status = PaymentStatusDelayed
            /\ plans'[l][k].total = plans[l][k].total

\* No step completes a loan that has a delayed installment.
DelayedLoanStaysOpen ==
    \A l \in StoredLoans :
        (HasDelayed(l) /\ loans[l].status # LoanStatusCompleted) =>
            loans'[l].status # LoanStatusCompleted

\* C29: once an installment is delayed no tick and no makePayment changes its
\* status or its total, and makePayment never completes a loan that has a
\* delayed installment.
C29_DelayedIsTerminal == [][DelayedIsFinal /\ DelayedLoanStaysOpen]_vars

\* ---------------------------------------------------------------------------
\* What the recorded operation op adds to the balance of account a.
Signed(op, a) ==
    IF op.kind \in {"deposit", "loanIssue"} THEN (IF op.account = a THEN op.sum ELSE 0)
    ELSE IF op.kind = "withdraw" THEN (IF op.account = a THEN 0 - op.sum ELSE 0)
    ELSE IF op.kind = "transfer"
         THEN (IF op.account = a THEN 0 - op.sum ELSE 0)
              + (IF op.target = a THEN op.sum ELSE 0)
    ELSE (IF op.account = a THEN op.sum ELSE 0)

SignedTotal(a) ==
    SumOf([k \in DOMAIN operations |-> Signed(operations[k], a)], DOMAIN operations)

AllReturned ==
    /\ \A k \in Tellers : fa[k].pc \in {"idle", "done"}
    /\ \A p \in Payers : mp[p].pc \in {"idle", "done"}
    /\ \A c \in Creators : cl[c].pc \in {"idle", "done"}

\* C30: once every balance-changing operation has returned, the balance of an
\* account is its opening balance plus the signed sum of the operations
\* recorded for it; no balance is ever negative.
C30_LedgerConsistent ==
    /\ \A a \in DOMAIN funds : funds[a] >= 0
    /\ AllReturned => \A a \in DOMAIN funds : funds[a] = OpeningFunds + SignedTotal(a)

\* ---------------------------------------------------------------------------
\* AuthServiceImpl.RegisterClient over the clients table.  The table has a
\* unique index on login_name and one on contact; a lookup error other than
\* "not found" is discarded by the code and reads as "no such client".

HasLogin(login) == \E k \in DOMAIN clients : clients[k].login = login
HasContact(contact) == \E k \in DOMAIN clients : clients[k].contact = contact

\* The unique indexes of the clients table refuse the row.
BreaksUniqueIndex(row) == HasLogin(row.login) \/ HasContact(row.contact)

\* GetClientByLoginName and GetClientByContact returned a client.
LoginTaken(login) == \E k \in DOMAIN clients : clients[k].login = login

ContactUnchecked(contact) == FALSE

ContactTaken(contact) == \E k \in DOMAIN clients : clients[k].contact = contact

RC_Call(r, login, contact) ==
    /\ rc[r].pc = "idle"
    /\ rc' = [rc EXCEPT ![r] = [IdleRegistrar EXCEPT !.pc = "login", !.login = login,
                                                      !.contact = contact]]
    /\ UNCHANGED clients

RC_GetClientByLoginName(r) ==
    /\ rc[r].pc = "login"
    /\ rc' = [rc EXCEPT ![r] =
                 IF LoginTaken(rc[r].login)
                 THEN [@ EXCEPT !.pc = "done", !.result = "loginExists"]
                 ELSE [@ EXCEPT !.pc = "contact"]]
    /\ UNCHANGED clients

RC_GetClientByContact(r) ==
    /\ rc[r].pc = "contact"
    /\ rc' = [rc EXCEPT ![r] =
                 IF ContactTaken(rc[r].contact)
                 THEN [@ EXCEPT !.pc = "done", !.result = "contactExists"]
                 ELSE [@ EXCEPT !.pc = "access"]]
    /\ UNCHANGED clients

\* The access rights are seeded before the server starts, so the lookup of the
\* user right succeeds.
RC_GetAccessByName(r) ==
    /\ rc[r].pc = "access"
    /\ rc' = [rc EXCEPT ![r] = [@ EXCEPT !.pc = "create", !.grants = <<AccessUser>>]]
    /\ UNCHANGED clients

NewClient(r) == [login |-> rc[r].login, contact |-> rc[r].contact, grants |-> rc[r].grants]

\* db.Create: the insert is refused when it would break a unique index.
RC_CreateClient(r) ==
    /\ rc[r].pc = "create"
    /\ IF BreaksUniqueIndex(NewClient(r))
       THEN /\ rc' = [rc EXCEPT ![r] = [@ EXCEPT !.pc = "done", !.result = "createFailed"]]
            /\ UNCHANGED clients
       ELSE /\ clients' = Append(clients, NewClient(r))
            /\ rc' = [rc EXCEPT ![r] = [@ EXCEPT !.pc = "done", !.result = "ok"]]

RC_Return(r) ==
    /\ rc[r].pc = "done"
    /\ rc' = [rc EXCEPT ![r] = IdleRegistrar]
    /\ UNCHANGED clients

RegisterClient(r) ==
    /\ \/ \E login \in Logins, contact \in Contacts : RC_Call(r, login, contact)
       \/ RC_GetClientByLoginName(r)
       \/ RC_GetClientByContact(r)
       \/ RC_GetAccessByName(r)
       \/ RC_CreateClient(r)
       \/ RC_Return(r)
    /\ UNCHANGED <<today, store, mp, tk, lastTick, sched, lastCall, cl, ua, planSeq, calc, fa,
                   luhn, build, cards, cs, pgpSeq>>

InitAuth == InitTables(0, 0, 0, {}, Accounts) /\ NoCallers /\ calc = NoTerms

NextAuth == \E r \in Registrars : RegisterClient(r)

SpecAuth == InitAuth /\ [][NextAuth]_vars

\* What one step of the registration r does to the table and to its result,
\* judged by what the table holds when the step reads it.
RegistrationStep(r) ==
    /\ (rc[r].pc = "login" /\ rc'[r] # rc[r] /\ HasLogin(rc[r].login)) =>
           /\ rc'[r].pc = "done" /\ rc'[r].result = "loginExists"
           /\ clients' = clients
    /\ (rc[r].pc = "contact" /\ rc'[r] # rc[r] /\ HasContact(rc[r].contact)) =>
           /\ rc'[r].pc = "done" /\ rc'[r].result = "contactExists"
           /\ clients' = clients
    /\ (rc[r].pc # "done" /\ rc'[r].pc = "done" /\ rc'[r].result = "loginExists") =>
           rc[r].pc = "login"
    /\ (rc[r].pc # "done" /\ rc'[r].pc = "done" /\ rc'[r].result = "contactExists") =>
           rc[r].pc = "contact"
    /\ (rc[r].pc = "create" /\ rc'[r].pc = "done") =>
           IF HasLogin(rc[r].login) \/ HasContact(rc[r].contact)
           THEN clients' = clients /\ rc'[r].result # "ok"
           ELSE /\ rc'[r].result = "ok"
                /\ clients' = Append(clients, [login |-> rc[r].login,
                                               contact |-> rc[r].contact,
                                               grants |-> <<AccessUser>>])
    /\ (rc[r].pc # "create" /\ rc'[r] # rc[r]) => clients' = clients

NoDuplicateClients ==
    \A j, k \in DOMAIN clients :
        j # k => clients[j].login # clients[k].login /\ clients[j].contact # clients[k].contact

Digits == 0 .. 9

Zeros(n) == [k \in 1 .. n |-> 0]

\* fmt.Sprintf("%0wd", n)
Sprintf(n, w) == [k \in 1 .. w |-> (n \div Pow(10, w - k)) % 10]

\* strings.ReplaceAll(str, c, "")
RECURSIVE ReplaceAll(_, _)
ReplaceAll(str, c) ==
    IF str = <<>> THEN <<>>
    ELSE (IF Head(str) = c THEN <<>> ELSE <<Head(str)>>) \o ReplaceAll(Tail(str), c)

\* digit *= 2; if digit > 9 { digit -= 9 }
Doubled(d) == IF 2 * d > 9 THEN 2 * d - 9 ELSE 2 * d

\* The loop of the service's calculateLuhnCheckDigit: position i counts from
\* the right of the partial number, from 0; the positions with i%2 == 1 are
\* doubled.
Svc_CheckSum(digits) ==
    SumOf([k \in 1 .. Len(digits) |->
              IF (Len(digits) - k) % 2 = 1 THEN Doubled(digits[k]) ELSE digits[k]],
          1 .. Len(digits))

Svc_calculateLuhnCheckDigit(number) == (10 - (Svc_CheckSum(number) % 10)) % 10

\* The loop of the service's validateLuhn over the digits without the last
\* one: the positions with i%2 == 0 are doubled.
Svc_ValidateSum(digits) ==
    SumOf([k \in 1 .. Len(digits) |->
              IF (Len(digits) - k) % 2 = 0 THEN Doubled(digits[k]) ELSE digits[k]],
          1 .. Len(digits))

Svc_validateLuhn(cardNumber) ==
    LET str == ReplaceAll(ReplaceAll(cardNumber, Space), Dash)
    IN  /\ Len(str) >= MinCardLen
        /\ Len(str) <= MaxCardLen
        /\ \A k \in 1 .. Len(str) : str[k] \in Digits
        /\ (Svc_ValidateSum(SubSeq(str, 1, Len(str) - 1)) + str[Len(str)]) % 10 = 0

\* formatCardNumber: groups of four separated by a space.
Svc_formatCardNumber(cardNumber) ==
    LET groups == (Len(cardNumber) + 3) \div 4
        chars == Len(cardNumber) + (IF groups = 0 THEN 0 ELSE groups - 1)
    IN  [j \in 1 .. chars |-> IF j % 5 = 0 THEN Space ELSE cardNumber[j - (j \div 5)]]

BinPrefix == <<4, 1, 0, 1>>

\* generateCardNumber of the PGP source, for the four random draws.
Svc_generateCardNumber(n1, n2, n3, n) ==
    LET drawn == Sprintf(n1, 4) \o Sprintf(n2, 4) \o Sprintf(n3, 4)
        threeDigits == Sprintf(n, 3)
        baseNumber == BinPrefix \o drawn
                        \o SubSeq(threeDigits, 1, 3 - (Len(BinPrefix \o drawn) % 4))
        cardNumber == baseNumber \o <<Svc_calculateLuhnCheckDigit(baseNumber)>>
    IN  ReplaceAll(Svc_formatCardNumber(cardNumber), Space)

\* int(number[i] - '0') of a byte: a character that is no digit wraps around.
ByteValue(c) == IF c \in Digits THEN c ELSE IF c = Space THEN 240 ELSE 253

\* The loop shared by validateLuhn and calculateLuhnCheckDigit of the security
\* package: from the right, every second character doubled, the rightmost not.
Sec_Sum(number) ==
    SumOf([k \in 1 .. Len(number) |->
              IF (Len(number) - k) % 2 = 1 THEN Doubled(ByteValue(number[k]))
              ELSE ByteValue(number[k])],
          1 .. Len(number))

Sec_validateLuhn(number) ==
    /\ Len(number) >= MinCardLen
    /\ Len(number) <= MaxCardLen
    /\ Sec_Sum(number) % 10 = 0

Sec_calculateLuhnCheckDigit(partialNumber) ==
    LET sum == Sec_Sum(partialNumber \o <<0>>)
    IN  IF sum % 10 = 0 THEN 0 ELSE 10 - (sum % 10)

RECURSIVE getCleanCardNumber(_)
getCleanCardNumber(cardNumber) ==
    IF cardNumber = <<>> THEN <<>>
    ELSE (IF Head(cardNumber) \in Digits THEN <<Head(cardNumber)>> ELSE <<>>)
             \o getCleanCardNumber(Tail(cardNumber))

VerifyCardNumber(cardNumber) == Sec_validateLuhn(getCleanCardNumber(cardNumber))

DefaultPrefix == <<4, 1, 0, 0>>
TotalLength == 16

\* GenerateCardNumber of the security package for a prefix that fits and the
\* random bytes read; the result is formatted in groups of four.
Sec_GenerateCardNumber(prefix, randomDigits) ==
    LET clean == getCleanCardNumber(prefix)
        used == IF clean = <<>> THEN DefaultPrefix ELSE clean
        cardNumber == used \o [k \in 1 .. Len(randomDigits) |-> randomDigits[k] % 10]
        whole == cardNumber \o <<Sec_calculateLuhnCheckDigit(cardNumber)>>
    IN  Svc_formatCardNumber(whole)

\* The digit strings the check-digit functions are given: a prefix, zeros and
\* FreeDigits digits of every value, 12 to 19 digits long.
Tails == [1 .. FreeDigits -> Digits]
Partials ==
    {BinPrefix \o Zeros(len - 4 - FreeDigits) \o t : len \in 12 .. 19, t \in Tails}
\* The results of a random draw below m.
Rand(m) == 0 .. (IF m - 1 < MaxRand THEN m - 1 ELSE MaxRand)
\* The random bytes the security generator may read for n digits.
RandomBytes(n) == {Zeros(n - FreeDigits) \o [k \in 1 .. FreeDigits |-> 250 + t[k]] : t \in Tails}

LuhnPairs == {"service", "security"}

L_Take(pair, p) ==
    /\ luhn.stage = "idle"
    /\ luhn' = [IdleLuhn EXCEPT !.stage = "partial", !.pair = pair, !.origin = "given",
                                 !.partial = p]

L_CheckDigit ==
    /\ luhn.stage = "partial"
    /\ luhn' = [luhn EXCEPT !.stage = "number",
                  !.number = luhn.partial \o
                     <<IF luhn.pair = "service" THEN Svc_calculateLuhnCheckDigit(luhn.partial)
                       ELSE Sec_calculateLuhnCheckDigit(luhn.partial)>>]

L_GenerateService ==
    /\ luhn.stage = "idle"
    /\ \E n1, n2, n3 \in Rand(10000), n \in Rand(1000) :
          luhn' = [IdleLuhn EXCEPT !.stage = "number", !.pair = "service",
                                   !.origin = "generated",
                                   !.number = Svc_generateCardNumber(n1, n2, n3, n)]

L_GenerateSecurity ==
    /\ luhn.stage = "idle"
    /\ \E prefix \in {<<>>, BinPrefix} :
          \E bytes \in RandomBytes(TotalLength - 4 - 1) :
              luhn' = [IdleLuhn EXCEPT !.stage = "number", !.pair = "security",
                                       !.origin = "generated",
                                       !.number = Sec_GenerateCardNumber(prefix, bytes)]

L_Validate ==
    /\ luhn.stage = "number"
    /\ luhn' = [luhn EXCEPT !.stage = "checked",
                  !.ok = IF luhn.pair = "service" THEN Svc_validateLuhn(luhn.number)
                         ELSE VerifyCardNumber(luhn.number)]

L_Clear ==
    /\ luhn.stage = "checked"
    /\ luhn' = IdleLuhn

LuhnDesk ==
    /\ \/ \E pair \in LuhnPairs, p \in Partials : L_Take(pair, p)
       \/ L_CheckDigit
       \/ L_GenerateService
       \/ L_GenerateSecurity
       \/ L_Validate
       \/ L_Clear
    /\ UNCHANGED <<today, store, mp, tk, lastTick, sched, lastCall, cl, ua, planSeq, calc, fa,
                   clients, rc, build, cards, cs, pgpSeq>>

InitLuhn == InitAuth

SpecLuhn == InitLuhn /\ [][LuhnDesk]_vars

\* The Luhn checksum over all digits of a number: from the right, every second
\* digit doubled (nines cast out), starting with the digit left of the last.
LuhnChecksum(number) ==
    SumOf([k \in 1 .. Len(number) |->
              IF (Len(number) - k) % 2 = 1 THEN Doubled(number[k]) ELSE number[k]],
          1 .. Len(number))

\* C21: a partial number with its check digit appended has a Luhn checksum
\* divisible by 10 and is accepted by the validation when it is 13 to 19 digits
\* long; every number a generator produces is accepted by the validation.
C21_LuhnAgreement ==
    luhn.stage = "checked" =>
        LET digits == getCleanCardNumber(luhn.number)
        IN  /\ LuhnChecksum(digits) % 10 = 0
            /\ (Len(digits) >= MinCardLen /\ Len(digits) <= MaxCardLen) => luhn.ok
            /\ luhn.origin = "generated" => luhn.ok

\* ---------------------------------------------------------------------------
\* The payment card service.  Package services holds two sources of
\* PaymentCardServiceImpl with the same constructor; build says which one the
\* program is made of.  One caller; a handler is one step.

EncryptionKey == <<KeyChar>>

\* openpgp: a message encrypted to an entity is read by that entity only.
encryptWithPGP(data, entity) == [enc |-> "pgp", key |-> entity, text |-> data]
decryptWithPGP(encrypted, entity) ==
    IF encrypted.enc = "pgp" /\ encrypted.key = entity
    THEN [ok |-> TRUE, text |-> encrypted.text]
    ELSE [ok |-> FALSE, text |-> <<>>]

\* CardSecurity: RSA with the key pair of the instance.
EncryptCardNumber(cardNumber) == [enc |-> "rsa", key |-> 0, text |-> cardNumber]
DecryptCardNumber(encrypted) ==
    IF encrypted.enc = "rsa" /\ encrypted.key = 0
    THEN [ok |-> TRUE, text |-> encrypted.text]
    ELSE [ok |-> FALSE, text |-> <<>>]

\* HMAC-SHA256 with the salt of the service, over the string as it is given.
computeHMAC(data) == [enc |-> "hmac", key |-> 0, text |-> data]

hashCVV(cvv) == [enc |-> "bcrypt", key |-> 0, text |-> cvv]
verifyCVV(cvv, hashedCVV) == hashedCVV.enc = "bcrypt" /\ hashedCVV.text = cvv

\* base64 of cvv + encryptionKey, and its inverse.
encryptCVV(cvv) == [enc |-> "base64", key |-> 0, text |-> cvv \o EncryptionKey]
TrimSuffix(str, suffix) ==
    IF Len(str) >= Len(suffix)
       /\ SubSeq(str, Len(str) - Len(suffix) + 1, Len(str)) = suffix
    THEN SubSeq(str, 1, Len(str) - Len(suffix))
    ELSE str
decryptCVV(encryptedCVV) == TrimSuffix(encryptedCVV.text, EncryptionKey)

\* generateCardNumber of the plain source: sixteen random digits.
Plain_generateCardNumber(n1, n2, n3, n4) ==
    Sprintf(n1, 4) \o Sprintf(n2, 4) \o Sprintf(n3, 4) \o Sprintf(n4, 4)

\* payment_cards: the first row that matches, or 0.
FirstCard(S) == IF S = {} THEN 0 ELSE CHOOSE k \in S : \A j \in S : k <= j
GetPaymentCardByID(id) == FirstCard({k \in DOMAIN cards : cards[k].id = id})
GetPaymentCardByNumber(number) == FirstCard({k \in DOMAIN cards : cards[k].number = number})
GetPaymentCardByHMAC(hmac) == FirstCard({k \in DOMAIN cards : cards[k].hmac = hmac})

\* card_number and card_number_hmac are unique.
CardBreaksUniqueIndex(row) ==
    \E k \in DOMAIN cards : cards[k].number = row.number \/ cards[k].hmac = row.hmac

CardIds == {1, 2}
Expiries == 0 .. MaxDay + CardLife
Codes == {Sprintf(c, 3) : c \in Rand(1000)}

\* Numbers a caller presents: one that passes Luhn, one that does not, the
\* stored ones, and each of them in groups of four.
SomeNumber == BinPrefix \o Zeros(12)
InvalidNumber == BinPrefix \o Zeros(11) \o <<1>>
Presented ==
    LET bare == {SomeNumber, InvalidNumber} \cup {cards[k].number.text : k \in DOMAIN cards}
    IN  bare \cup {Svc_formatCardNumber(n) : n \in bare}

CardFrame ==
    UNCHANGED <<today, store, mp, tk, lastTick, sched, lastCall, cl, ua, planSeq, calc, fa,
                clients, rc, luhn, build>>

Called(op) == [IdleCardCall EXCEPT !.op = op]

\* CreatePaymentCard of the PGP source.
PC_CreatePgp(account) ==
    /\ build = "pgp"
    /\ IF account \notin DOMAIN funds
       THEN /\ cs' = [Called("create") EXCEPT !.result = "noAccount"]
            /\ UNCHANGED <<cards, pgpSeq>>
       ELSE \E n1, n2, n3 \in Rand(10000), n \in Rand(1000), c \in Rand(1000) :
              LET cardNumber == Svc_generateCardNumber(n1, n2, n3, n)
                  cvv == Sprintf(c, 3)
                  row == [id |-> Len(cards) + 1,
                          number |-> encryptWithPGP(cardNumber, pgpSeq + 1),
                          hmac |-> computeHMAC(cardNumber),
                          cvv |-> hashCVV(cvv),
                          expDate |-> encryptWithPGP(<<today + CardLife>>, pgpSeq + 2),
                          expires |-> today + CardLife,
                          status |-> "active",
                          account |-> account]
              IN  IF ~Svc_validateLuhn(cardNumber)
                  THEN /\ cs' = [Called("create") EXCEPT !.result = "luhnRejected",
                                                         !.number = cardNumber]
                       /\ UNCHANGED <<cards, pgpSeq>>
                  ELSE /\ pgpSeq + 2 <= MaxKeys
                       /\ pgpSeq' = pgpSeq + 2
                       /\ IF CardBreaksUniqueIndex(row)
                          THEN /\ cs' = [Called("create") EXCEPT !.result = "saveFailed"]
                               /\ UNCHANGED cards
                          ELSE /\ cards' = Append(cards, row)
                               /\ cs' = [Called("create") EXCEPT
                                            !.result = "ok", !.number = cardNumber,
                                            !.code = cvv,
                                            !.card = [row EXCEPT !.number = Plain(cardNumber)]]
    /\ CardFrame

\* CreatePaymentCard of the plain source.
PC_CreatePlain(account) ==
    /\ build = "plain"
    /\ IF account \notin DOMAIN funds
       THEN /\ cs' = [Called("create") EXCEPT !.result = "noAccount"]
            /\ UNCHANGED cards
       ELSE \E n1, n2, n3, n4 \in Rand(10000), c \in Rand(1000) :
              LET cardNumber == Plain_generateCardNumber(n1, n2, n3, n4)
                  cvv == Sprintf(c, 3)
                  row == [id |-> Len(cards) + 1,
                          number |-> Plain(cardNumber),
                          hmac |-> NoText,
                          cvv |-> encryptCVV(cvv),
                          expDate |-> NoText,
                          expires |-> today + CardLife,
                          status |-> "active",
                          account |-> account]
              IN  IF CardBreaksUniqueIndex(row)
                  THEN /\ cs' = [Called("create") EXCEPT !.result = "saveFailed"]
                       /\ UNCHANGED cards
                  ELSE /\ cards' = Append(cards, row)
                       /\ cs' = [Called("create") EXCEPT !.result = "ok",
                                    !.number = cardNumber, !.code = cvv, !.card = row]
    /\ UNCHANGED pgpSeq
    /\ CardFrame

\* What the PGP source returns for a stored row: the number decrypted by a
\* newly created entity when that works, the row as stored when it does not.
Displayed(row, entity) ==
    LET decrypted == decryptWithPGP(row.number, entity)
    IN  IF decrypted.ok THEN [row EXCEPT !.number = Plain(decrypted.text)] ELSE row

PC_GetByID(id) ==
    /\ LET k == GetPaymentCardByID(id)
       IN  IF k = 0
           THEN /\ cs' = [Called("getById") EXCEPT !.result = "notFound"]
                /\ UNCHANGED pgpSeq
           ELSE IF build = "pgp"
           THEN /\ pgpSeq < MaxKeys
                /\ pgpSeq' = pgpSeq + 1
                /\ cs' = [Called("getById") EXCEPT !.result = "ok",
                             !.card = Displayed(cards[k], pgpSeq + 1)]
           ELSE /\ cs' = [Called("getById") EXCEPT !.result = "ok", !.card = cards[k]]
                /\ UNCHANGED pgpSeq
    /\ UNCHANGED cards
    /\ CardFrame

PC_GetByNumber(p) ==
    /\ LET k == IF build = "pgp" THEN GetPaymentCardByHMAC(computeHMAC(p))
                ELSE GetPaymentCardByNumber(Plain(p))
       IN  IF k = 0
           THEN /\ cs' = [Called("getByNumber") EXCEPT !.number = p, !.result = "notFound"]
                /\ UNCHANGED pgpSeq
           ELSE IF build = "pgp"
           THEN /\ pgpSeq < MaxKeys
                /\ pgpSeq' = pgpSeq + 1
                /\ cs' = [Called("getByNumber") EXCEPT !.number = p, !.result = "ok",
                             !.card = Displayed(cards[k], pgpSeq + 1)]
           ELSE /\ cs' = [Called("getByNumber") EXCEPT !.number = p, !.result = "ok",
                             !.card = cards[k]]
                /\ UNCHANGED pgpSeq
    /\ UNCHANGED cards
    /\ CardFrame

\* BlockPaymentCard and UnblockPaymentCard: the same in both sources.
PC_SetStatus(op, id, status) ==
    /\ LET k == GetPaymentCardByID(id)
       IN  IF k = 0
           THEN /\ cs' = [Called(op) EXCEPT !.result = "notFound"]
                /\ UNCHANGED cards
           ELSE /\ cards' = [cards EXCEPT ![k] = [cards[k] EXCEPT !.status = status]]
                /\ cs' = [Called(op) EXCEPT !.result = "ok"]
    /\ UNCHANGED pgpSeq
    /\ CardFrame

PC_Block(id) == PC_SetStatus("block", id, "blocked")
PC_Unblock(id) == PC_SetStatus("unblock", id, "active")

\* ValidatePaymentCard of the PGP source.
PC_ValidatePgp(p, code, expiry) ==
    /\ build = "pgp"
    /\ LET k == GetPaymentCardByHMAC(computeHMAC(p))
           call == [Called("validate") EXCEPT !.number = p, !.code = code, !.expiry = expiry]
       IN  IF ~Svc_validateLuhn(p)
           THEN cs' = [call EXCEPT !.result = "invalidNumber"] /\ UNCHANGED pgpSeq
           ELSE IF k = 0
           THEN cs' = [call EXCEPT !.result = "notFound"] /\ UNCHANGED pgpSeq
           ELSE /\ pgpSeq < MaxKeys
                /\ pgpSeq' = pgpSeq + 1
                /\ cs' = [call EXCEPT !.result =
                             IF today > cards[k].expires THEN "expired"
                             ELSE IF cards[k].status # "active" THEN "blocked"
                             ELSE IF ~verifyCVV(code, cards[k].cvv) THEN "wrongCode"
                             ELSE "ok"]
    /\ UNCHANGED cards
    /\ CardFrame

\* ValidatePaymentCard of the plain source.
PC_ValidatePlain(p, code, expiry) ==
    /\ build = "plain"
    /\ LET k == GetPaymentCardByNumber(Plain(p))
           call == [Called("validate") EXCEPT !.number = p, !.code = code, !.expiry = expiry]
       IN  cs' = [call EXCEPT !.result =
                     IF k = 0 THEN "notFound"
                     ELSE IF cards[k].status # "active" THEN "blocked"
                     ELSE IF cards[k].expires < today THEN "expired"
                     ELSE IF cards[k].expires # expiry THEN "wrongExpiry"
                     ELSE IF decryptCVV(cards[k].cvv) # code THEN "wrongCode"
                     ELSE "ok"]
    /\ UNCHANGED <<cards, pgpSeq>>
    /\ CardFrame

\* A card number is protected: by encryptWithPGP of the service (a new entity
\* is created for it), or by EncryptCardNumber of a CardSecurity instance.
PC_Protect(who, x) ==
    /\ IF who = "service"
       THEN /\ build = "pgp"
            /\ pgpSeq < MaxKeys
            /\ pgpSeq' = pgpSeq + 1
            /\ cs' = [Called("protect") EXCEPT !.who = who, !.number = x, !.result = "ok",
                         !.out = encryptWithPGP(x, pgpSeq + 1)]
       ELSE /\ cs' = [Called("protect") EXCEPT !.who = who, !.number = x, !.result = "ok",
                         !.out = EncryptCardNumber(x)]
            /\ UNCHANGED pgpSeq
    /\ UNCHANGED cards
    /\ CardFrame

\* What was protected is unprotected by the same instance.
PC_Unprotect ==
    /\ cs.op = "protect"
    /\ IF cs.who = "service"
       THEN /\ pgpSeq < MaxKeys
            /\ pgpSeq' = pgpSeq + 1
            /\ LET decrypted == decryptWithPGP(cs.out, pgpSeq + 1)
               IN  cs' = [cs EXCEPT !.op = "unprotect",
                             !.result = IF decrypted.ok THEN "ok" ELSE "decryptFailed",
                             !.out = Plain(decrypted.text)]
       ELSE /\ LET decrypted == DecryptCardNumber(cs.out)
               IN  cs' = [cs EXCEPT !.op = "unprotect",
                             !.result = IF decrypted.ok THEN "ok" ELSE "decryptFailed",
                             !.out = Plain(decrypted.text)]
            /\ UNCHANGED pgpSeq
    /\ UNCHANGED cards
    /\ CardFrame

\* The fingerprint of a presented number (PGP source).
PC_Fingerprint(p) ==
    /\ build = "pgp"
    /\ cs' = [Called("fingerprint") EXCEPT !.number = p, !.result = "ok",
                 !.out = computeHMAC(p)]
    /\ UNCHANGED <<cards, pgpSeq>>
    /\ CardFrame

CardService ==
    \/ \E account \in AccountIds : PC_CreatePgp(account)
    \/ \E account \in AccountIds : PC_CreatePlain(account)
    \/ \E id \in CardIds : PC_GetByID(id)
    \/ \E p \in Presented : PC_GetByNumber(p)
    \/ \E id \in CardIds : PC_Block(id)
    \/ \E id \in CardIds : PC_Unblock(id)
    \/ \E p \in Presented, code \in Codes, expiry \in Expiries : PC_ValidatePgp(p, code, expiry)
    \/ \E p \in Presented, code \in Codes, expiry \in Expiries : PC_ValidatePlain(p, code, expiry)
    \/ \E who \in LuhnPairs, x \in {SomeNumber, InvalidNumber} : PC_Protect(who, x)
    \/ PC_Unprotect
    \/ \E p \in Presented : PC_Fingerprint(p)

InitCard ==
    /\ InitTables(0, 0, 0, {}, Accounts)
    /\ NoTellers /\ NoRegistrars /\ NoLuhn /\ NoCards
    /\ build \in Builds
    /\ calc = NoTerms

NextCard == CardService \/ AdvanceDay

SpecCard == InitCard /\ [][NextCard]_vars

\* The digits of a presented number, and whether they pass the Luhn check.
Normalized(p) == ReplaceAll(ReplaceAll(p, Space), Dash)
LuhnValid(p) ==
    LET digits == Normalized(p)
    IN  /\ Len(digits) >= MinCardLen /\ Len(digits) <= MaxCardLen
        /\ \A k \in 1 .. Len(digits) : digits[k] \in Digits
        /\ LuhnChecksum(digits) % 10 = 0

\* C22: issuing a card on an existing account succeeds; the number returned is
\* the plaintext of 16 digits that starts with the prefix and passes the Luhn
\* check, the code returned has three digits, and the stored card is active
\* and holds a fingerprint and a hashed verification code.
C22_IssueSucceeds ==
    (cs.op = "create" /\ cs.result # "noAccount") =>
        /\ cs.result = "ok"
        /\ cs.card.number.enc = "none"
        /\ Len(cs.card.number.text) = TotalLength
        /\ SubSeq(cs.card.number.text, 1, Len(BinPrefix)) = BinPrefix
        /\ LuhnValid(cs.card.number.text)
        /\ Len(cs.code) = 3
        /\ LET k == GetPaymentCardByID(cs.card.id)
           IN  /\ k # 0
               /\ cards[k].status = "active"
               /\ cards[k].hmac.enc = "hmac"
               /\ cards[k].cvv.enc = "bcrypt"

\* The verification code a stored card was issued with.
IssuedCode(row) == IF row.cvv.enc = "base64" THEN decryptCVV(row.cvv) ELSE row.cvv.text

\* A call of validate with the number as it was issued.
ValidateStep ==
    (cs' # cs /\ cs'.op = "validate") =>
        LET p == cs'.number
            stored == {k \in DOMAIN cards : cards[k].number.text = p}
        IN  /\ ~LuhnValid(p) => cs'.result = "invalidNumber"
            /\ \A k \in stored :
                   (LuhnValid(p) /\ today <= cards[k].expires /\ cards[k].status = "blocked")
                       => cs'.result = "blocked"
            /\ \A k \in stored :
                   (LuhnValid(p) /\ today > cards[k].expires /\ cards[k].status = "blocked")
                       => cs'.result = "expired"
            /\ cs'.result = "ok" =>
                   /\ LuhnValid(p)
                   /\ \E k \in stored :
                          /\ today <= cards[k].expires
                          /\ cards[k].status = "active"
                          /\ IssuedCode(cards[k]) = cs'.code

\* C23: validate checks Luhn, lookup, expiry, status and verification code in
\* this order: a number that fails Luhn is refused as invalid, an unexpired
\* blocked card is refused as blocked whatever the code, an expired blocked
\* card is refused as expired, and only a Luhn-valid, stored, unexpired, active
\* card with the matching code is accepted.
C23_ValidateOrder == [][ValidateStep]_vars

\* C24: what a service instance protected it unprotects to the same string,
\* and a card read back by id carries its number in plaintext.
C24_ProtectRoundTrip ==
    /\ cs.op = "unprotect" => (cs.result = "ok" /\ cs.out = Plain(cs.number))
    /\ (cs.op = "getById" /\ cs.result = "ok") => cs.card.number.enc = "none"

\* C25: the fingerprint of a presented number is the fingerprint of its
\* digits, and a stored card is found by lookup and by validate under every
\* presentation of its number (with spaces, with dashes, bare).
C25_FingerprintOfNormalized ==
    /\ cs.op = "fingerprint" => cs.out = computeHMAC(Normalized(cs.number))
    /\ (cs.op \in {"getByNumber", "validate"}
        /\ \E k \in DOMAIN cards : cards[k].number.text = Normalized(cs.number))
           => cs.result # "notFound"

\* C26: no stored card holds its number in plaintext or its verification code
\* in a form that can be turned back into the code.
C26_NothingStoredInPlaintext ==
    \A k \in DOMAIN cards :
        /\ cards[k].number.enc \in {"pgp", "rsa"}
        /\ cards[k].cvv.enc = "bcrypt"

====
